---- MODULE Spec2Model ----
(***************************************************************************)
(* A model of the hierarchical file system of the kernel                   *)
(* (code/filesys/filesys.cc, code/filesys/directory.cc).                   *)
(*                                                                         *)
(* The disk is an array of sectors.  A sector holds one of                 *)
(*   "zero"  nothing but zero bytes (a never written sector, and also the  *)
(*           image of a directory table fresh from the constructor, which  *)
(*           memsets it to 0),                                             *)
(*   "hdr"   a file header: length, data sector table, next header sector, *)
(*   "tbl"   a directory table,                                            *)
(*   "map"   the packed bits of the free map.                              *)
(* Sizes are counted in whole sectors: a directory table and the free map  *)
(* fill one sector each.  The constants of the source are scaled down so   *)
(* that a full directory, a full disk and a chained header all happen.     *)
(*                                                                         *)
(* Paths and names are sequences of one-character strings.                 *)
(*                                                                         *)
(* Further down: the descriptor table of the file system (FdSpec) and the  *)
(* three-level scheduler of code/threads/scheduler.cc (SchedSpec), with    *)
(* isPreempted on its own (PreemptSpec).  Each specification moves its own *)
(* part of the kernel and holds the other parts at rest.                   *)
(***************************************************************************)
EXTENDS Integers, Sequences, FiniteSets, TLC

\* ---- bounds -------------------------------------------------------------
NumSectors == 9         \* sectors of the disk
NumDirEntries == 2      \* entries of a directory table (64 in the source)
NumDirect == 1          \* data sectors one file header can index
FileNameMaxLen == 3     \* characters kept and compared of a name (9)
MaxSize == 2            \* largest initialSize, in sectors
MaxDepth == 3           \* longest path, in segments
MaxCalls == 3           \* calls followed after the boot

\* ---- constants of the source ---------------------------------------------
FreeMapSector == 0
DirectorySector == 1
FreeMapFileSize == 1
DirectoryFileSize == 1

NONE == -1              \* "not found", NULL
GARBAGE == -2           \* a structure was read from bytes of another kind

Chars == {"a", "b"}
Sectors == 0 .. (NumSectors - 1)

Min(a, b) == IF a < b THEN a ELSE b

\* ---- sector contents ------------------------------------------------------
ZeroEntry == [inUse |-> FALSE, directoryFlag |-> FALSE, name |-> <<>>, sector |-> 0]
ZeroTable == [i \in 1 .. NumDirEntries |-> ZeroEntry]

Zero == [t |-> "zero", len |-> 0, secs |-> <<>>, next |-> 0, tab |-> <<>>, bits |-> {}]
HdrContent(len, secs, next) == [Zero EXCEPT !.t = "hdr", !.len = len, !.secs = secs, !.next = next]
TblContent(tab) == IF tab = ZeroTable THEN Zero ELSE [Zero EXCEPT !.t = "tbl", !.tab = tab]
MapContent(bits) == IF bits = {} THEN Zero ELSE [Zero EXCEPT !.t = "map", !.bits = bits]

\* ---- strings -------------------------------------------------------------
Take(s, n) == SubSeq(s, 1, Min(Len(s), n))

\* strncmp(a, b, n) == 0 on NUL-terminated strings
StrNEq(a, b, n) == Take(a, n) = Take(b, n)

\* strrchr(name, '/') - name, 0-based; name holds a '/'
LastSlashPos(name) ==
    (CHOOSE i \in 1 .. Len(name) :
        /\ name[i] = "/"
        /\ \A j \in (i + 1) .. Len(name) : name[j] # "/") - 1

\* strchr(name + 1, '/') - name, 0-based; NONE when there is none
NextSlashPos(name) ==
    IF \E i \in 2 .. Len(name) : name[i] = "/"
    THEN (CHOOSE i \in 2 .. Len(name) :
             /\ name[i] = "/"
             /\ \A j \in 2 .. (i - 1) : name[j] # "/") - 1
    ELSE NONE

GetBaseName(name) ==
    IF LastSlashPos(name) = 0 THEN <<"/">>
    ELSE SubSeq(name, 1, LastSlashPos(name))

GetFileName(name) == SubSeq(name, LastSlashPos(name) + 1, Len(name))

\* ---- Directory (directory.cc) ----------------------------------------------
\* FindIndex with the test of strncmp inverted
FindIndexMut(table, name) ==
    LET hits == {i \in 1 .. NumDirEntries :
                    table[i].inUse /\ ~StrNEq(table[i].name, name, FileNameMaxLen)}
    IN  IF hits = {} THEN 0
        ELSE CHOOSE i \in hits : \A j \in hits : i <= j

\* the lowest index of an in-use entry whose name matches, 0 when none
\* (the source counts from 0 and returns -1)
FindIndex(table, name) ==
    LET hits == {i \in 1 .. NumDirEntries :
                    table[i].inUse /\ StrNEq(table[i].name, name, FileNameMaxLen)}
    IN  IF hits = {} THEN 0
        ELSE CHOOSE i \in hits : \A j \in hits : i <= j

Find(table, name) ==
    IF FindIndex(table, name) # 0 THEN table[FindIndex(table, name)].sector ELSE NONE

\* Find(name, &dirFlag)
FindDirFlag(table, name) ==
    IF FindIndex(table, name) # 0 THEN table[FindIndex(table, name)].directoryFlag ELSE FALSE

\* the table after Add, or the table unchanged when Add returns FALSE
AddOk(table, name) ==
    /\ FindIndex(table, name) = 0
    /\ \E i \in 1 .. NumDirEntries : ~table[i].inUse

Add(table, name, newSector, directoryFlag) ==
    IF ~AddOk(table, name) THEN table
    ELSE LET i == CHOOSE k \in 1 .. NumDirEntries :
                      /\ ~table[k].inUse
                      /\ \A j \in 1 .. (k - 1) : table[j].inUse
         IN  [table EXCEPT ![i] = [inUse |-> TRUE, directoryFlag |-> directoryFlag,
                                   name |-> Take(name, FileNameMaxLen),
                                   sector |-> newSector]]

\* Remove that frees the first entry of the table
DirRemoveMut(table, name) ==
    IF FindIndex(table, name) = 0 THEN table
    ELSE [table EXCEPT ![1].inUse = FALSE]

DirRemove(table, name) ==
    IF FindIndex(table, name) = 0 THEN table
    ELSE [table EXCEPT ![FindIndex(table, name)].inUse = FALSE]

\* ---- OpenFile: a header read from a sector, and byte I/O through it -------
Garbage == [Zero EXCEPT !.t = "garbage"]

\* OpenFile(sector): the bytes of the sector taken as a file header.  A zero
\* sector reads as a header of length 0.
OpenFile(d, sector) ==
    IF d[sector].t \in {"hdr", "zero"} THEN d[sector] ELSE Garbage

\* Directory::FetchFrom(file): ReadAt of the table; <<>> stands for a table
\* read from bytes that are not a table
FetchFrom(d, file) ==
    IF file.len >= DirectoryFileSize
    THEN LET c == d[file.secs[1]]
         IN  IF c.t = "zero" THEN ZeroTable
             ELSE IF c.t = "tbl" THEN c.tab
             ELSE <<>>
    ELSE ZeroTable

\* Directory::WriteBack(file): WriteAt of the table, cut at the file length
WriteBack(d, file, table) ==
    IF file.len >= DirectoryFileSize
    THEN [d EXCEPT ![file.secs[1]] = TblContent(table)]
    ELSE d

\* ---- Directory::Find_r ----------------------------------------------------
RECURSIVE Find_r(_, _, _, _)
Find_r(d, table, name, rootSector) ==
    IF Len(name) = 1 THEN rootSector
    ELSE
      LET nsp  == NextSlashPos(name)
          buff == IF nsp # NONE THEN SubSeq(name, 1, nsp) ELSE name
          rest == IF nsp # NONE THEN SubSeq(name, nsp + 1, Len(name)) ELSE <<>>
          hits == {i \in 1 .. NumDirEntries :
                      table[i].inUse /\ StrNEq(table[i].name, buff, FileNameMaxLen)}
      IN  IF hits = {} THEN NONE
          ELSE
            LET i == CHOOSE k \in hits : \A j \in hits : k <= j
            IN  IF rest = <<>> THEN table[i].sector
                ELSE
                  LET dirFile == OpenFile(d, table[i].sector)
                      dir     == IF dirFile = Garbage THEN <<>> ELSE FetchFrom(d, dirFile)
                  IN  IF dir = <<>> THEN GARBAGE
                      ELSE Find_r(d, dir, rest, rootSector)

\* ---- free map (PersistentBitmap) -------------------------------------------
FindAndSet(bits) ==
    IF Sectors \ bits = {} THEN NONE
    ELSE CHOOSE s \in Sectors \ bits : \A u \in Sectors \ bits : s <= u

NumClear(bits) == Cardinality(Sectors \ bits)

\* ---- FileHeader ------------------------------------------------------------
\* sectors a file of n data sectors needs besides its first header
NeededSectors(n) ==
    IF n <= NumDirect THEN n ELSE n + ((n - 1) \div NumDirect)

RECURSIVE FindAndSetMany(_, _)
FindAndSetMany(bits, k) ==
    IF k = 0 THEN <<>>
    ELSE <<FindAndSet(bits)>> \o FindAndSetMany(bits \cup {FindAndSet(bits)}, k - 1)

Range(s) == {s[i] : i \in 1 .. Len(s)}

\* the header chain of a file of n data sectors, the free map holding room
RECURSIVE AllocChain(_, _)
AllocChain(bits, n) ==
    LET secs  == FindAndSetMany(bits, Min(n, NumDirect))
        bits1 == bits \cup Range(secs)
    IN  IF n > NumDirect
        THEN LET nx == FindAndSet(bits1)
                 r  == AllocChain(bits1 \cup {nx}, n - NumDirect)
             IN  [bits |-> r.bits,
                  chain |-> <<HdrContent(n, secs, nx)>> \o r.chain]
        ELSE [bits |-> bits1, chain |-> <<HdrContent(n, secs, NONE)>>]

AllocateOk(bits, n) == NumClear(bits) >= NeededSectors(n)

Allocate(bits, n) ==
    IF AllocateOk(bits, n) THEN AllocChain(bits, n)
    ELSE [bits |-> bits, chain |-> <<>>]

\* FileHeader::WriteBack(sector): every header of the chain to its sector
RECURSIVE HdrWriteBack(_, _, _)
HdrWriteBack(d, sector, chain) ==
    IF chain = <<>> THEN d
    ELSE HdrWriteBack([d EXCEPT ![sector] = chain[1]], chain[1].next, Tail(chain))

\* FileHeader::FetchFrom(sector): the chain read back; <<>> when a sector of
\* the chain does not hold a header
RECURSIVE HdrFetchFrom(_, _, _)
HdrFetchFrom(d, sector, fuel) ==
    IF fuel = 0 \/ sector \notin Sectors \/ d[sector].t # "hdr" THEN <<>>
    ELSE IF d[sector].next = NONE THEN <<d[sector]>>
    ELSE LET r == HdrFetchFrom(d, d[sector].next, fuel - 1)
         IN  IF r = <<>> THEN <<>> ELSE <<d[sector]>> \o r

\* the data sectors of a chain, and the sectors of its chained headers
ChainData(chain) == UNION {Range(chain[i].secs) : i \in 1 .. Len(chain)}
ChainNext(chain) == {chain[i].next : i \in 1 .. Len(chain)} \ {NONE}

Deallocate(bits, chain) == (bits \ ChainData(chain)) \ ChainNext(chain)

\* ---- FileSystem::FileSystem(format = TRUE) ---------------------------------
FormatMap == Allocate({FreeMapSector, DirectorySector}, FreeMapFileSize)
FormatDir == Allocate(FormatMap.bits, DirectoryFileSize)

\* the two files the file system keeps open: their headers stay in memory
freeMapFile == FormatMap.chain[1]
directoryFile == FormatDir.chain[1]

FormatDisk ==
    LET d0 == [s \in Sectors |-> Zero]
        d1 == HdrWriteBack(d0, FreeMapSector, FormatMap.chain)
        d2 == HdrWriteBack(d1, DirectorySector, FormatDir.chain)
        d3 == [d2 EXCEPT ![freeMapFile.secs[1]] = MapContent(FormatDir.bits)]
    IN  WriteBack(d3, directoryFile, ZeroTable)

\* PersistentBitmap(freeMapFile, NumSectors): the bits read from the file;
\* GARBAGE when the sector does not hold a bitmap
MapFetch(d) ==
    LET c == d[freeMapFile.secs[1]]
    IN  IF c.t = "map" THEN c.bits
        ELSE IF c.t = "zero" THEN {}
        ELSE {GARBAGE}

MapWriteBack(d, bits) == [d EXCEPT ![freeMapFile.secs[1]] = MapContent(bits)]

\* ---- the result of one call -------------------------------------------------
\* st: "ok" the call returned; "assert" an ASSERT of the kernel failed and the
\* kernel stopped; "garbage" the call read a header, table or bitmap from
\* bytes of another kind; "ub" the call returned after it used the value of
\* an uninitialized local as a sector number.  The model follows the kernel
\* no further after "assert", "garbage" and "ub".
\* why: the branch taken.  sector: the header sector the call worked on.
Res(d, ret, st, why, sector) ==
    [disk |-> d, ret |-> ret, st |-> st, why |-> why, sector |-> sector]

\* ---- FileSystem::Create -----------------------------------------------------
\* the directory block without the WriteBack of the empty table
CreateNewDirectoryMut(d, c, directoryFlag) == c

\* uSuccess and uSector are the values the locals "success" and "sector"
\* hold while they are uninitialized; uSector = NONE stands for every value
\* that is no sector of the disk.
CreateNewDirectory(d, c, directoryFlag) ==
    IF ~directoryFlag THEN c
    ELSE IF c.sector \notin Sectors THEN Res(c.disk, c.ret, "assert", c.why, c.sector)
    ELSE LET newDirectoryFile == OpenFile(c.disk, c.sector)
         IN  IF newDirectoryFile = Garbage
             THEN Res(c.disk, c.ret, "garbage", c.why, c.sector)
             ELSE Res(WriteBack(c.disk, newDirectoryFile, ZeroTable),
                      c.ret, IF c.why = "dup" THEN "ub" ELSE "ok", c.why, c.sector)

CreateInBase(d, baseDirectoryFile, baseDirectory, filename, initialSize, directoryFlag, uSector) ==
    IF Find(baseDirectory, filename) # NONE
    THEN Res(d, FALSE, "ok", "dup", uSector)
    ELSE
      LET freeMap == MapFetch(d)
          sector  == FindAndSet(freeMap)
          marked  == freeMap \cup {sector}
          hdr     == Allocate(marked, initialSize)
          d1      == HdrWriteBack(d, sector, hdr.chain)
          d2      == WriteBack(d1, baseDirectoryFile,
                               Add(baseDirectory, filename, sector, directoryFlag))
          d3      == MapWriteBack(d2, hdr.bits)
      IN  IF freeMap = {GARBAGE} THEN Res(d, FALSE, "garbage", "map", NONE)
          ELSE IF sector = NONE THEN Res(d, FALSE, "ok", "nohdr", sector)
          ELSE IF ~AddOk(baseDirectory, filename) THEN Res(d, FALSE, "ok", "full", sector)
          ELSE IF ~AllocateOk(marked, initialSize) THEN Res(d, FALSE, "ok", "nospace", sector)
          ELSE Res(d3, TRUE, "ok", "created", sector)

CreateOp(d, name, size, directoryFlag, uSuccess, uSector) ==
    LET initialSize   == IF directoryFlag THEN DirectoryFileSize ELSE size
        rootDirectory == FetchFrom(d, directoryFile)
        baseSector    == IF rootDirectory = <<>> THEN GARBAGE
                         ELSE Find_r(d, rootDirectory, GetBaseName(name), DirectorySector)
        baseDirectoryFile == OpenFile(d, baseSector)
        baseDirectory == IF baseDirectoryFile = Garbage THEN <<>>
                         ELSE FetchFrom(d, baseDirectoryFile)
    IN  IF baseSector = GARBAGE THEN Res(d, FALSE, "garbage", "path", NONE)
        ELSE IF baseSector < 0 THEN Res(d, uSuccess, "ok", "noparent", NONE)
        ELSE IF baseDirectory = <<>> THEN Res(d, FALSE, "garbage", "base", NONE)
        ELSE CreateNewDirectory(d,
                 CreateInBase(d, baseDirectoryFile, baseDirectory, GetFileName(name),
                              initialSize, directoryFlag, uSector),
                 directoryFlag)

\* ---- FileSystem::Open -------------------------------------------------------
\* Open that looks the leaf up in the root directory
OpenOpMut(d, name) ==
    LET rootDirectory == FetchFrom(d, directoryFile)
        baseSector    == IF rootDirectory = <<>> THEN GARBAGE
                         ELSE Find_r(d, rootDirectory, GetBaseName(name), DirectorySector)
    IN  IF baseSector = GARBAGE THEN Res(d, NONE, "garbage", "path", NONE)
        ELSE IF baseSector < 0 THEN Res(d, NONE, "ok", "noparent", NONE)
        ELSE IF Find(rootDirectory, GetFileName(name)) >= 0
             THEN Res(d, Find(rootDirectory, GetFileName(name)), "ok", "opened",
                      Find(rootDirectory, GetFileName(name)))
             ELSE Res(d, NONE, "ok", "notfound", NONE)

\* the header sector of the OpenFile returned, NONE for NULL
OpenOp(d, name) ==
    LET rootDirectory == FetchFrom(d, directoryFile)
        baseSector    == IF rootDirectory = <<>> THEN GARBAGE
                         ELSE Find_r(d, rootDirectory, GetBaseName(name), DirectorySector)
        baseDirectoryFile == OpenFile(d, baseSector)
        baseDirectory == IF baseDirectoryFile = Garbage THEN <<>>
                         ELSE FetchFrom(d, baseDirectoryFile)
    IN  IF baseSector = GARBAGE THEN Res(d, NONE, "garbage", "path", NONE)
        ELSE IF baseSector < 0 THEN Res(d, NONE, "ok", "noparent", NONE)
        ELSE IF baseDirectory = <<>> THEN Res(d, NONE, "garbage", "base", NONE)
        ELSE IF Find(baseDirectory, GetFileName(name)) >= 0
             THEN Res(d, Find(baseDirectory, GetFileName(name)), "ok", "opened",
                      Find(baseDirectory, GetFileName(name)))
             ELSE Res(d, NONE, "ok", "notfound", NONE)

\* ---- FileSystem::Remove -----------------------------------------------------
\* the test without the directory flag
RemoveRefusedMut(sector, recursiveFlag, dirFlag) == sector = NONE

\* sector == -1 || (!recursiveFlag && dirFlag)
RemoveRefused(sector, recursiveFlag, dirFlag) ==
    sector = NONE \/ (~recursiveFlag /\ dirFlag)

\* the loop started at the second header of the chain
ClearHeadersMut(bits, sector, chain) == bits \ ChainNext(chain)

\* the loop that clears the sector of every header of the chain
ClearHeaders(bits, sector, chain) == (bits \ {sector}) \ ChainNext(chain)

RECURSIVE RemoveOp(_, _, _, _)
RECURSIVE RemoveEntries(_, _, _, _, _, _)

\* the rest of the loop after Remove of one entry returned r
RemoveNext(r, name, dir, i, recursiveFlag, fuel) ==
    IF r.st # "ok" THEN r
    ELSE RemoveEntries(r.disk, name, dir, i + 1, recursiveFlag, fuel)

\* the loop that removes no entry
RemoveEntriesMut(d, name, dir, i, recursiveFlag, fuel) ==
    Res(d, TRUE, "ok", "loop", NONE)

\* the loop over the entries of the directory being removed: Remove of
\* name + ent.name for every entry in use, from entry i on
RemoveEntries(d, name, dir, i, recursiveFlag, fuel) ==
    IF i > NumDirEntries THEN Res(d, TRUE, "ok", "loop", NONE)
    ELSE IF ~dir[i].inUse
         THEN RemoveEntries(d, name, dir, i + 1, recursiveFlag, fuel)
    ELSE RemoveNext(RemoveOp(d, name \o dir[i].name, recursiveFlag, fuel - 1),
                    name, dir, i, recursiveFlag, fuel)

\* dir->WriteBack(dirFile) after the loop returned r: the table as it was
\* read before the loop
RemoveDirWriteBack(r, dirFile, dir, sector) ==
    IF r.st # "ok" THEN r
    ELSE Res(WriteBack(r.disk, dirFile, dir), TRUE, "ok", "loop", sector)

\* if(recursiveFlag && dirFlag): the entries of the directory are removed
RemoveDirectory(d, name, sector, dirFile, recursiveFlag, fuel) ==
    IF dirFile = Garbage \/ FetchFrom(d, dirFile) = <<>>
    THEN Res(d, FALSE, "garbage", "dir", sector)
    ELSE RemoveDirWriteBack(
             RemoveEntries(d, name, FetchFrom(d, dirFile), 1, recursiveFlag, fuel),
             dirFile, FetchFrom(d, dirFile), sector)

\* the header chain is freed in the free map and the entry in the parent
\* table; inner is the outcome of the recursive part
RemoveFile(inner, baseDirectoryFile, baseDirectory, filename, sector, dirFlag) ==
    LET fileHdr  == HdrFetchFrom(inner.disk, sector, NumSectors)
        freeMap  == MapFetch(inner.disk)
        cleared  == ClearHeaders(Deallocate(freeMap, fileHdr), sector, fileHdr)
        d1       == MapWriteBack(inner.disk, cleared)
        d2       == WriteBack(d1, baseDirectoryFile, DirRemove(baseDirectory, filename))
    IN  IF inner.st # "ok" THEN inner
        ELSE IF fileHdr = <<>> \/ freeMap = {GARBAGE}
             THEN Res(inner.disk, FALSE, "garbage", "hdr", sector)
        ELSE Res(d2, TRUE, "ok",
                 IF dirFlag THEN "removeddir" ELSE "removedfile", sector)

\* Remove once the base directory is read
RemoveInBase(d, name, baseDirectoryFile, baseDirectory, filename, sector, dirFlag, recursiveFlag, fuel) ==
    IF RemoveRefused(sector, recursiveFlag, dirFlag)
    THEN Res(d, FALSE, "ok", IF sector = NONE THEN "notfound" ELSE "isdir", sector)
    ELSE RemoveFile(IF recursiveFlag /\ dirFlag
                    THEN RemoveDirectory(d, name, sector, OpenFile(d, sector),
                                         recursiveFlag, fuel)
                    ELSE Res(d, TRUE, "ok", "plain", sector),
                    baseDirectoryFile, baseDirectory, filename, sector, dirFlag)

RemoveOp(d, name, recursiveFlag, fuel) ==
    LET rootDirectory == FetchFrom(d, directoryFile)
        baseSector    == IF rootDirectory = <<>> THEN GARBAGE
                         ELSE Find_r(d, rootDirectory, GetBaseName(name), DirectorySector)
        baseDirectoryFile == OpenFile(d, baseSector)
        baseDirectory == IF baseDirectoryFile = Garbage THEN <<>>
                         ELSE FetchFrom(d, baseDirectoryFile)
    IN  IF fuel = 0 \/ baseSector = GARBAGE THEN Res(d, FALSE, "garbage", "path", NONE)
        ELSE IF baseSector = NONE THEN Res(d, FALSE, "ok", "noparent", NONE)
        ELSE IF baseDirectory = <<>> THEN Res(d, FALSE, "garbage", "base", NONE)
        ELSE RemoveInBase(d, name, baseDirectoryFile, baseDirectory, GetFileName(name),
                          Find(baseDirectory, GetFileName(name)),
                          FindDirFlag(baseDirectory, GetFileName(name)),
                          recursiveFlag, fuel)

\* ---- what the disk holds, read without the code of the lookup ----------------
\* the segments of a path, each with its leading '/'
SlashAt(name) == {i \in 1 .. Len(name) : name[i] = "/"}

SegmentEnd(name, i) ==
    IF \E j \in SlashAt(name) : j > i
    THEN (CHOOSE j \in SlashAt(name) :
             j > i /\ \A k \in SlashAt(name) : k > i => j <= k) - 1
    ELSE Len(name)

RECURSIVE SegmentsFrom(_, _)
SegmentsFrom(name, i) ==
    IF i > Len(name) THEN <<>>
    ELSE <<SubSeq(name, i, SegmentEnd(name, i))>>
             \o SegmentsFrom(name, SegmentEnd(name, i) + 1)

SegmentsOf(name) == SegmentsFrom(name, 1)

ParentOf(name) == SubSeq(SegmentsOf(name), 1, Len(SegmentsOf(name)) - 1)
LeafOf(name) == SegmentsOf(name)[Len(SegmentsOf(name))]

\* the table a header sector leads to, <<>> when it leads to none
TableAt(d, sector) ==
    IF d[sector].t = "hdr" /\ d[sector].len >= 1 /\ d[d[sector].secs[1]].t \in {"tbl", "zero"}
    THEN FetchFrom(d, d[sector])
    ELSE <<>>

InUseNamed(table, seg) ==
    {i \in 1 .. Len(table) : table[i].inUse /\ table[i].name = seg}

\* the header sector of the directory reached from the root through segs,
\* every segment an entry with the directory flag; NONE when a segment is
\* absent from the directory reached so far; GARBAGE when a segment names a
\* regular file or the disk holds no table where one is due
RECURSIVE DirSectorFrom(_, _, _)
DirSectorFrom(d, sector, segs) ==
    IF segs = <<>> THEN sector
    ELSE LET table == TableAt(d, sector)
             hits  == InUseNamed(table, segs[1])
         IN  IF table = <<>> THEN GARBAGE
             ELSE IF hits = {} THEN NONE
             ELSE IF \E i \in hits : ~table[i].directoryFlag THEN GARBAGE
             ELSE DirSectorFrom(d, table[CHOOSE i \in hits : TRUE].sector, Tail(segs))

ParentSector(d, name) == DirSectorFrom(d, DirectorySector, ParentOf(name))

\* the parent path of name is a chain of directories
ParentIsDir(d, name) ==
    /\ ParentSector(d, name) >= 0
    /\ TableAt(d, ParentSector(d, name)) # <<>>

\* the header sector the entry of name holds, NONE when its parent holds no
\* such entry (the parent being a chain of directories)
SectorOf(d, name) ==
    LET table == TableAt(d, ParentSector(d, name))
        hits  == InUseNamed(table, LeafOf(name))
    IN  IF hits = {} THEN NONE ELSE table[CHOOSE i \in hits : TRUE].sector

IsDirectory(d, name) ==
    LET table == TableAt(d, ParentSector(d, name))
        hits  == InUseNamed(table, LeafOf(name))
    IN  hits # {} /\ table[CHOOSE i \in hits : TRUE].directoryFlag

\* the sectors of the header chain that starts at sector, and of its data
ChainOf(d, sector) == HdrFetchFrom(d, sector, NumSectors)

FileSectors(d, sector) ==
    <<sector>> \o
    (IF ChainOf(d, sector) = <<>> THEN <<>>
     ELSE LET chain == ChainOf(d, sector)
              F[i \in 0 .. Len(chain)] ==
                  IF i = 0 THEN <<>>
                  ELSE F[i - 1] \o chain[i].secs
                         \o (IF chain[i].next = NONE THEN <<>> ELSE <<chain[i].next>>)
          IN  F[Len(chain)])

\* the sectors of every file and directory below the directory at sector, one
\* occurrence for every file that holds the sector
RECURSIVE TreeSectors(_, _, _)
RECURSIVE EntriesSectors(_, _, _, _)
EntriesSectors(d, table, i, fuel) ==
    IF i > Len(table) THEN <<>>
    ELSE (IF ~table[i].inUse THEN <<>>
          ELSE FileSectors(d, table[i].sector)
                 \o (IF table[i].directoryFlag
                     THEN TreeSectors(d, table[i].sector, fuel - 1) ELSE <<>>))
         \o EntriesSectors(d, table, i + 1, fuel)

TreeSectors(d, sector, fuel) ==
    IF fuel = 0 THEN <<>> ELSE EntriesSectors(d, TableAt(d, sector), 1, fuel)

\* headers and data of the bitmap file, of the root directory and of every
\* live file
OccupiedSectors(d) ==
    FileSectors(d, FreeMapSector) \o FileSectors(d, DirectorySector)
        \o TreeSectors(d, DirectorySector, NumSectors)

\* every directory table reachable from the root
RECURSIVE TablesBelow(_, _, _)
TablesBelow(d, sector, fuel) ==
    IF fuel = 0 \/ TableAt(d, sector) = <<>> THEN {}
    ELSE LET table == TableAt(d, sector)
         IN  {table} \cup
             UNION {TablesBelow(d, table[i].sector, fuel - 1) :
                      i \in {k \in 1 .. Len(table) :
                               table[k].inUse /\ table[k].directoryFlag}}

IsPrefix(p, q) == Len(p) <= Len(q) /\ SubSeq(q, 1, Len(p)) = p

\* ---- state ------------------------------------------------------------------
VARIABLES
    disk,       \* the content of every sector
    last,       \* the last call: operation, arguments, result
    halted,     \* "no", or why the model stops here: "assert", "garbage", "ub"
    ncalls,     \* calls made since the boot
    allOk,      \* every Create and Remove since the format returned TRUE
    \* FileSystem: the descriptor table
    fileDescriptorTable,    \* slot -> NullFile, WildFile or an open file
    fileDescritporIndex,    \* the rotating cursor of PutFileDescriptor
    fdLast,                 \* the last descriptor call: operation, id, result
    \* Scheduler, and the fields of the threads it reads and writes
    readyList,      \* L3, round robin: thread ids in queue order
    priorityList,   \* L2, SortedList under ComparePriority
    sjfList,        \* L1, SortedList under CompareSJF
    priority,       \* thread -> priority
    guessCPUBurst,  \* thread -> estimated burst, counted in halves of a tick
    lastCPUTick,    \* thread -> tick of the last dispatch or enqueueing
    cpuBurst,       \* thread -> accumulated burst
    status,         \* thread -> "NEW", "READY", "RUNNING", "BLOCKED"
    currentThread,  \* kernel->currentThread
    nextThread,     \* the thread FindNextToRun returned and Run has not yet taken
    yieldOnReturn,  \* the flag Interrupt::YieldOnReturn sets
    totalTicks,     \* kernel->stats->totalTicks
    toBeDestroyed,  \* the finished thread awaiting its deletion
    pc,             \* where the kernel stands: "user", "yield", "sleep",
                    \* "finish" (inside Thread::Yield or Thread::Sleep), or
                    \* "switched" (after SWITCH, before CheckToBeDestroyed)
    schedLast,      \* the last scheduler call: operation, thread, result
    yields          \* thread -> the Yield calls its user program has made (its i)

fsVars == <<disk, last, halted, ncalls, allOk>>
fdVars == <<fileDescriptorTable, fileDescritporIndex, fdLast>>
schedVars == <<readyList, priorityList, sjfList, priority, guessCPUBurst, lastCPUTick,
               cpuBurst, status, currentThread, nextThread, yieldOnReturn, totalTicks,
               toBeDestroyed, pc, schedLast, yields>>
vars == <<fsVars, fdVars, schedVars>>

\* ---- the parts of the kernel at rest -----------------------------------------
MAXOPENFILES == 3       \* the modulus of the cursor (implementation-defined)
MaxIndex == 12          \* fileDescritporIndex is followed up to here
NumHandles == 3         \* OpenFile objects handed to PutFileDescriptor

NullFile == 0           \* NULL
WildFile == -1          \* the pointer an uninitialized slot holds
Handles == 1 .. NumHandles
Slots == 0 .. MAXOPENFILES

NumThreads == 3
Threads == 1 .. NumThreads
NoThread == 0           \* NULL

FdBoot == [op |-> "Boot", id |-> 0, ret |-> 0, st |-> "ok"]

\* the descriptor table with no file open
FdIdle ==
    /\ fileDescriptorTable = [i \in Slots |-> NullFile]
    /\ fileDescritporIndex = 0
    /\ fdLast = FdBoot

SchedBoot ==
    [op |-> "Boot", thread |-> NoThread, ret |-> NoThread, st |-> "ok", yield |-> FALSE]

\* Scheduler::Scheduler: three empty lists; the main thread runs
SchedIdle ==
    /\ readyList = <<>>
    /\ priorityList = <<>>
    /\ sjfList = <<>>
    /\ priority = [t \in Threads |-> 0]
    /\ guessCPUBurst = [t \in Threads |-> 0]
    /\ lastCPUTick = [t \in Threads |-> 0]
    /\ cpuBurst = [t \in Threads |-> 0]
    /\ status = [t \in Threads |-> IF t = 1 THEN "RUNNING" ELSE "NEW"]
    /\ currentThread = 1
    /\ nextThread = NoThread
    /\ yieldOnReturn = FALSE
    /\ totalTicks = 0
    /\ toBeDestroyed = NoThread
    /\ pc = "user"
    /\ schedLast = SchedBoot
    /\ yields = [t \in Threads |-> 0]

\* the file system on a fresh disk, no call made
FsIdle ==
    /\ disk = FormatDisk
    /\ last = [op |-> "Boot", name |-> <<"/">>, flag |-> FALSE,
               ret |-> TRUE, why |-> "boot", sector |-> NONE]
    /\ halted = "no"
    /\ ncalls = 0
    /\ allOk = TRUE

\* the paths the calls are made on: every path of at most MaxDepth segments
\* whose segments but the last are "a", so that directories nest MaxDepth - 1
\* deep and every directory has two names to hold
RECURSIVE Nest(_)
Nest(n) == IF n = 0 THEN <<>> ELSE <<"/", "a">> \o Nest(n - 1)

Paths == {Nest(n) \o <<"/", c>> : n \in 0 .. (MaxDepth - 1), c \in Chars}
             \cup {<<"/", "c">>}

Call(op, name, size, flag, r) ==
    [op |-> op, name |-> name, flag |-> flag,
     ret |-> r.ret, why |-> r.why, sector |-> r.sector]

\* FileSystem(format = FALSE) opens the disk as earlier runs left it.  The
\* disks booted from: a freshly formatted one, and three that the successful
\* calls of an earlier run have left.
\*   calls 1-3: mkdir /a, mkdir /a/a, create /a/a/a             (nested)
\*   call  4  : recursive remove of /a                           (used, empty)
\*   calls 5-7: mkdir /a, create /b, create /a/a of one sector   (root
\*              directory full, disk full)
BootScript ==
    << [op |-> "Create", name |-> <<"/", "a">>, size |-> 0, flag |-> TRUE],
       [op |-> "Create", name |-> <<"/", "a", "/", "a">>, size |-> 0, flag |-> TRUE],
       [op |-> "Create", name |-> <<"/", "a", "/", "a", "/", "a">>, size |-> 0, flag |-> FALSE],
       [op |-> "Remove", name |-> <<"/", "a">>, size |-> 0, flag |-> TRUE],
       [op |-> "Create", name |-> <<"/", "a">>, size |-> 0, flag |-> TRUE],
       [op |-> "Create", name |-> <<"/", "b">>, size |-> 0, flag |-> FALSE],
       [op |-> "Create", name |-> <<"/", "a", "/", "a">>, size |-> 1, flag |-> FALSE] >>

BootLengths == {0, 3, 4, 7}

\* the disk after the calls of script, made one after the other
RECURSIVE Run(_, _)
Run(d, script) ==
    IF script = <<>> THEN d
    ELSE Run(IF Head(script).op = "Create"
             THEN CreateOp(d, Head(script).name, Head(script).size,
                           Head(script).flag, FALSE, NONE).disk
             ELSE RemoveOp(d, Head(script).name, Head(script).flag, NumSectors).disk,
             Tail(script))

BootDisks == {Run(FormatDisk, SubSeq(BootScript, 1, n)) : n \in BootLengths}

Init ==
    /\ disk \in BootDisks
    /\ last = [op |-> "Boot", name |-> <<"/">>, flag |-> FALSE,
               ret |-> TRUE, why |-> "boot", sector |-> NONE]
    /\ halted = "no"
    /\ ncalls = 0
    /\ allOk = TRUE
    /\ FdIdle
    /\ SchedIdle

Done(op, name, size, flag, r) ==
    /\ disk' = r.disk
    /\ last' = Call(op, name, size, flag, r)
    /\ halted' = IF r.st = "ok" THEN "no" ELSE r.st
    /\ ncalls' = ncalls + 1
    /\ allOk' = (allOk /\ r.st = "ok" /\ (op \in {"Open", "Find_r"} \/ r.ret = TRUE))
    /\ UNCHANGED <<fdVars, schedVars>>

\* The callers name files below directories: no call is made on a path that
\* runs through a regular file (Find_r does not look at the directory flag
\* and would read the data of the file as a table).
PathOk(d, name) == ParentSector(d, name) # GARBAGE

\* the values of the uninitialized "sector" that make a difference
USectors(d, name, directoryFlag) ==
    IF directoryFlag /\ CreateOp(d, name, 0, directoryFlag, FALSE, NONE).why = "dup"
    THEN Sectors \cup {NONE} ELSE {NONE}

Create(name, size, directoryFlag) ==
    /\ halted = "no"
    /\ ncalls < MaxCalls
    /\ PathOk(disk, name)
    /\ \E uSuccess \in BOOLEAN, uSector \in USectors(disk, name, directoryFlag) :
          Done("Create", name, size, directoryFlag,
               CreateOp(disk, name, size, directoryFlag, uSuccess, uSector))

Open(name) ==
    /\ halted = "no"
    /\ ncalls < MaxCalls
    /\ PathOk(disk, name)
    /\ Done("Open", name, 0, FALSE, OpenOp(disk, name))

Remove(name, recursiveFlag) ==
    /\ halted = "no"
    /\ ncalls < MaxCalls
    /\ PathOk(disk, name)
    /\ Done("Remove", name, 0, recursiveFlag,
            RemoveOp(disk, name, recursiveFlag, NumSectors))

Next ==
    \/ \E name \in Paths, size \in 0 .. MaxSize : Create(name, size, FALSE)
    \/ \E name \in Paths : Create(name, 0, TRUE)
    \/ \E name \in Paths : Open(name)
    \/ \E name \in Paths, recursiveFlag \in BOOLEAN : Remove(name, recursiveFlag)

Spec == Init /\ [][Next]_vars

\* ---- FileSystem: the descriptor table -----------------------------------------
\* id <= 0 || id > MAXOPENFILES
BadId(id) == id <= 0 \/ id > MAXOPENFILES

FdRes(table, index, ret, st) == [table |-> table, index |-> index, ret |-> ret, st |-> st]

\* FileSystem::Read: n is what OpenFile::Read returns.  Through the pointer
\* of an uninitialized slot the call is undefined.
ReadOp(table, index, id, n) ==
    IF BadId(id) THEN FdRes(table, index, -1, "ok")
    ELSE IF table[id] = NullFile THEN FdRes(table, index, -1, "ok")
    ELSE IF table[id] = WildFile THEN FdRes(table, index, n, "ub")
    ELSE FdRes(table, index, n, "ok")

\* FileSystem::Write: n is what OpenFile::Write returns
WriteOp(table, index, id, n) ==
    IF BadId(id) THEN FdRes(table, index, -1, "ok")
    ELSE IF table[id] = NullFile THEN FdRes(table, index, -1, "ok")
    ELSE IF table[id] = WildFile THEN FdRes(table, index, n, "ub")
    ELSE FdRes(table, index, n, "ok")

\* Close that forgets to clear the slot
CloseOpMut(table, index, id) ==
    IF BadId(id) THEN FdRes(table, index, -1, "ok")
    ELSE IF table[id] = NullFile THEN FdRes(table, index, -1, "ok")
    ELSE FdRes(table, index, 1, IF table[id] = WildFile THEN "ub" ELSE "ok")

\* FileSystem::Close
CloseOp(table, index, id) ==
    IF BadId(id) THEN FdRes(table, index, -1, "ok")
    ELSE IF table[id] = NullFile THEN FdRes(table, index, -1, "ok")
    ELSE FdRes([table EXCEPT ![id] = NullFile], index, 1,
               IF table[id] = WildFile THEN "ub" ELSE "ok")

RECURSIVE PutFileDescriptor(_, _, _, _)
RECURSIVE PutFileDescriptorMut(_, _, _, _)

\* the loop without the test of index 0
PutFileDescriptorMut(table, index, cnt, fileDesc) ==
    IF table[(index + 1) % MAXOPENFILES] # NullFile
    THEN IF cnt < MAXOPENFILES
         THEN PutFileDescriptorMut(table, index + 1, cnt + 1, fileDesc)
         ELSE FdRes(table, index + 1, 0, "ok")
    ELSE FdRes([table EXCEPT ![(index + 1) % MAXOPENFILES] = fileDesc],
               index + 1, (index + 1) % MAXOPENFILES, "ok")

\* FileSystem::PutFileDescriptor: index is fileDescritporIndex before the
\* ++ of this turn of the loop
PutFileDescriptor(table, index, cnt, fileDesc) ==
    IF ((index + 1) % MAXOPENFILES) = 0 \/ table[(index + 1) % MAXOPENFILES] # NullFile
    THEN IF cnt < MAXOPENFILES
         THEN PutFileDescriptor(table, index + 1, cnt + 1, fileDesc)
         ELSE FdRes(table, index + 1, 0, "ok")
    ELSE FdRes([table EXCEPT ![(index + 1) % MAXOPENFILES] = fileDesc],
               index + 1, (index + 1) % MAXOPENFILES, "ok")

FdDone(op, id, r) ==
    /\ fileDescriptorTable' = r.table
    /\ fileDescritporIndex' = r.index
    /\ fdLast' = [op |-> op, id |-> id, ret |-> r.ret, st |-> r.st]
    /\ UNCHANGED <<fsVars, schedVars>>

\* the ids the callers pass: every id of the table and one beyond each end
Ids == -1 .. (MAXOPENFILES + 1)

Read(id) ==
    /\ fdLast.st = "ok"
    /\ \E n \in 0 .. 1 :
          FdDone("Read", id, ReadOp(fileDescriptorTable, fileDescritporIndex, id, n))

Write(id) ==
    /\ fdLast.st = "ok"
    /\ \E n \in 0 .. 1 :
          FdDone("Write", id, WriteOp(fileDescriptorTable, fileDescritporIndex, id, n))

Close(id) ==
    /\ fdLast.st = "ok"
    /\ FdDone("Close", id, CloseOp(fileDescriptorTable, fileDescritporIndex, id))

\* a file is put that is in no slot yet
Put(fileDesc) ==
    /\ fdLast.st = "ok"
    /\ fileDescritporIndex + MAXOPENFILES + 1 <= MaxIndex
    /\ \A i \in Slots : fileDescriptorTable[i] # fileDesc
    /\ FdDone("Put", fileDesc,
              PutFileDescriptor(fileDescriptorTable, fileDescritporIndex, 0, fileDesc))

\* The constructor (filesys.cc:83) sets the cursor and leaves the table as
\* the allocator handed it over: a slot holds NULL or a wild pointer.
FdInit ==
    /\ fileDescriptorTable \in [Slots -> {NullFile, WildFile}]
    /\ fileDescritporIndex = 0
    /\ fdLast = FdBoot
    /\ FsIdle
    /\ SchedIdle

FdNext ==
    \/ \E id \in Ids : Read(id)
    \/ \E id \in Ids : Write(id)
    \/ \E id \in Ids : Close(id)
    \/ \E fileDesc \in Handles : Put(fileDesc)

FdSpec == FdInit /\ [][FdNext]_vars

\* ---- the claims --------------------------------------------------------------
BitCount(d) == Cardinality(MapFetch(d))

\* the step is a call of op that returned (no ASSERT stopped the kernel)
Returned(op) == last'.op = op /\ ncalls' = ncalls + 1 /\ halted' # "assert"

\* C1: whenever Create returns FALSE after it sought a header sector (no free
\* header sector, parent directory full, not enough data sectors), for a file
\* and for a directory alike, every sector holds what it held before the call.
C1_FailedCreateKeepsDisk ==
    [][(/\ Returned("Create")
        /\ last'.ret = FALSE
        /\ last'.why \in {"nohdr", "full", "nospace"})
       => disk' = disk]_vars

\* C2: Create returns FALSE and changes nothing on disk whenever the parent
\* path does not resolve to a directory sector from the root.
C2_CreateWithoutParentFails ==
    [][(/\ Returned("Create")
        /\ ParentSector(disk, last'.name) = NONE)
       => (last'.ret = FALSE /\ disk' = disk)]_vars

\* C3: Create of a path whose leaf already exists in its parent directory
\* returns FALSE for a file and for a directory, leaves the number of set bits
\* of the free map as it was, writes no sector, and Open of the path still
\* yields the header sector it yielded before.
C3_DuplicateCreateKeepsDisk ==
    [][(/\ last'.op = "Create"
        /\ ncalls' = ncalls + 1
        /\ ParentIsDir(disk, last'.name)
        /\ SectorOf(disk, last'.name) # NONE)
       => (/\ halted' = "no"
           /\ last'.ret = FALSE
           /\ BitCount(disk') = BitCount(disk)
           /\ disk' = disk
           /\ OpenOp(disk', last'.name).ret = SectorOf(disk, last'.name))]_vars

C5_LiveSectorsAreMarked ==
    Range(TreeSectors(disk, DirectorySector, NumSectors)) \subseteq MapFetch(disk)

\* C6: in every directory reachable from the root the names of the in-use
\* entries are pairwise distinct under the comparison over FileNameMaxLen
\* characters.
C6_NamesAreDistinct ==
    \A table \in TablesBelow(disk, DirectorySector, NumSectors) :
        \A i, j \in 1 .. Len(table) :
            (i # j /\ table[i].inUse /\ table[j].inUse)
                => ~StrNEq(table[i].name, table[j].name, FileNameMaxLen)

C6_Witness ==
    /\ last.op = "Create" /\ last.ret = TRUE /\ halted = "no"
    /\ \E table \in TablesBelow(disk, DirectorySector, NumSectors) :
          \A i \in 1 .. Len(table) : table[i].inUse

\* C7: after Create of a regular file below the root or below a chain of
\* directories returns TRUE, Open of the path yields the header sector this
\* Create allocated; Open of a path whose parent directory holds no entry of
\* the leaf (never created, or removed) yields NULL; Open of a path whose
\* parent does not resolve yields NULL.
C7_OpenFindsWhatCreateMade ==
    /\ [](\A p \in Paths :
            /\ ParentIsDir(disk, p) => OpenOp(disk, p).ret = SectorOf(disk, p)
            /\ ParentSector(disk, p) = NONE => OpenOp(disk, p).ret = NONE)
    /\ [][(/\ Returned("Create") /\ ~last'.flag /\ last'.ret = TRUE
           /\ ParentIsDir(disk, last'.name))
          => (/\ FindAndSet(MapFetch(disk)) # NONE
              /\ OpenOp(disk', last'.name).ret = FindAndSet(MapFetch(disk))
              /\ disk'[FindAndSet(MapFetch(disk))].t = "hdr")]_vars
    /\ [][(/\ Returned("Remove") /\ last'.ret = TRUE
           /\ ParentIsDir(disk, last'.name))
          => OpenOp(disk', last'.name).ret = NONE]_vars

C7_Witness ==
    /\ last.op = "Create" /\ last.ret = TRUE /\ ~last.flag /\ halted = "no"
    /\ Len(last.name) = 2 * MaxDepth
    /\ OpenOp(disk, last.name).ret = last.sector
    /\ last.sector \in Sectors
    /\ \E p \in Paths : ParentIsDir(disk, p) /\ OpenOp(disk, p).ret = NONE

\* the sectors of the file or directory at sector and of all below it
Subtree(d, sector) == FileSectors(d, sector) \o TreeSectors(d, sector, NumSectors)

Below(name, p) == IsPrefix(SegmentsOf(name), SegmentsOf(p))

\* C8: Remove(d, recursive = TRUE) of a directory d returns TRUE; afterwards
\* Open of d and of every path below d yields NULL, and the free map has lost
\* exactly the bits of the sectors of d and of its descendants: its bit count
\* is the count before they were created, the count after the format when
\* nothing else is on the disk.
C8_RecursiveRemoveFreesAll ==
    [][(/\ last'.op = "Remove" /\ ncalls' = ncalls + 1 /\ last'.flag
        /\ ParentIsDir(disk, last'.name)
        /\ IsDirectory(disk, last'.name))
       => (/\ halted' = "no"
           /\ last'.ret = TRUE
           /\ \A p \in Paths : Below(last'.name, p) => OpenOp(disk', p).ret = NONE
           /\ MapFetch(disk') =
                 MapFetch(disk) \ Range(Subtree(disk, SectorOf(disk, last'.name)))
           /\ BitCount(disk') =
                 BitCount(disk) - Len(Subtree(disk, SectorOf(disk, last'.name)))
           /\ (Len(OccupiedSectors(disk)) =
                  Cardinality(FormatDir.bits)
                      + Len(Subtree(disk, SectorOf(disk, last'.name)))
                  => BitCount(disk') = Cardinality(FormatDir.bits)))]_vars

\* a directory that held a directory that held a file has been removed: the
\* tables of both lie in free sectors, and nothing else is on the disk
C8_Witness ==
    /\ last.op = "Remove" /\ last.why = "removeddir" /\ last.flag /\ last.ret = TRUE
    /\ BitCount(disk) = Cardinality(FormatDir.bits)
    /\ \E s, u \in Sectors \ MapFetch(disk) :
          /\ s # u
          /\ disk[s].t = "tbl" /\ disk[u].t = "tbl"
          /\ \E i \in 1 .. NumDirEntries :
                /\ disk[s].tab[i].inUse /\ disk[s].tab[i].directoryFlag
                /\ disk[disk[s].tab[i].sector].t = "hdr"
                /\ disk[disk[s].tab[i].sector].secs = <<u>>
          /\ \E i \in 1 .. NumDirEntries : disk[u].tab[i].inUse

\* C9: Remove returns FALSE and leaves the free map and every directory on
\* disk unchanged when the parent path does not resolve, when the parent
\* directory holds no entry of the leaf, and when the leaf is a directory and
\* recursive = FALSE.
C9_RefusedRemoveKeepsDisk ==
    [][(/\ last'.op = "Remove" /\ ncalls' = ncalls + 1
        /\ \/ ParentSector(disk, last'.name) = NONE
           \/ ParentIsDir(disk, last'.name) /\ SectorOf(disk, last'.name) = NONE
           \/ ParentIsDir(disk, last'.name) /\ IsDirectory(disk, last'.name)
                /\ ~last'.flag)
       => (/\ halted' = "no"
           /\ last'.ret = FALSE
           /\ MapFetch(disk') = MapFetch(disk)
           /\ disk' = disk)]_vars

C9_Witness ==
    /\ last.op = "Remove" /\ last.ret = FALSE /\ ~last.flag /\ halted = "no"
    /\ ParentIsDir(disk, last.name)
    /\ IsDirectory(disk, last.name)
    /\ TableAt(disk, SectorOf(disk, last.name)) # ZeroTable

\* the sector that holds the table of the parent directory of name
ParentTableSector(d, name) == d[ParentSector(d, name)].secs[1]

\* C10: a successful Remove of a regular file clears exactly the free-map bits
\* of the header chain and the data sectors of the file and frees exactly its
\* entry in the parent directory: every other directory entry and every other
\* sector is as before, and every other path opens as before.
C10_RemoveTouchesOnlyTheFile ==
    [][(/\ Returned("Remove") /\ last'.ret = TRUE
        /\ ParentIsDir(disk, last'.name)
        /\ SectorOf(disk, last'.name) # NONE
        /\ ~IsDirectory(disk, last'.name))
       => (/\ MapFetch(disk') =
                 MapFetch(disk) \ Range(FileSectors(disk, SectorOf(disk, last'.name)))
           /\ Range(FileSectors(disk, SectorOf(disk, last'.name))) \subseteq MapFetch(disk)
           /\ LET old == TableAt(disk, ParentSector(disk, last'.name))
                  new == TableAt(disk', ParentSector(disk, last'.name))
              IN  \A i \in 1 .. NumDirEntries :
                     IF old[i].inUse /\ old[i].name = LeafOf(last'.name)
                     THEN new[i] = [old[i] EXCEPT !.inUse = FALSE]
                     ELSE new[i] = old[i]
           /\ \A s \in Sectors \ {freeMapFile.secs[1], ParentTableSector(disk, last'.name)} :
                 disk'[s] = disk[s]
           /\ \A p \in Paths \ {last'.name} :
                 PathOk(disk, p) => OpenOp(disk', p).ret = OpenOp(disk, p).ret)]_vars

\* a file with a chained header has been removed from a directory that holds
\* another entry
C10_Witness ==
    /\ last.op = "Remove" /\ last.why = "removedfile" /\ last.ret = TRUE
    /\ disk[last.sector].t = "hdr" /\ disk[last.sector].next # NONE
    /\ \E p \in Paths :
          /\ ParentOf(p) = ParentOf(last.name)
          /\ OpenOp(disk, p).ret # NONE

FdCall(op) == fdLast'.op = op /\ fdLast' # fdLast

OpenSlots(table) == {i \in 1 .. MAXOPENFILES : table[i] # NullFile}

\* C11: Read, Write and Close return -1 and touch no slot when the id lies
\* outside 1..MAXOPENFILES or the slot is empty; a Close of an open file
\* returns 1 and empties the slot; an empty slot is filled by no call but the
\* Put that returns its id, so a closed id stays refused until then.
C11_BadDescriptorIsRefused ==
    [][/\ (fdLast'.op \in {"Read", "Write", "Close"}
           /\ (fdLast'.id \notin 1 .. MAXOPENFILES
               \/ fileDescriptorTable[fdLast'.id] = NullFile))
          => (fdLast'.ret = -1 /\ fileDescriptorTable' = fileDescriptorTable)
       /\ (FdCall("Close") /\ fdLast'.id \in 1 .. MAXOPENFILES
           /\ fileDescriptorTable[fdLast'.id] \in Handles)
          => (/\ fdLast'.ret = 1
              /\ fileDescriptorTable' =
                    [fileDescriptorTable EXCEPT ![fdLast'.id] = NullFile])
       /\ \A i \in Slots :
             (fileDescriptorTable[i] = NullFile /\ fileDescriptorTable'[i] # NullFile)
                => (fdLast'.op = "Put" /\ fdLast'.ret = i)]_vars

C11_Witness ==
    /\ fdLast.op = "Close" /\ fdLast.ret = 1 /\ fdLast.st = "ok"
    /\ fileDescriptorTable[fdLast.id] = NullFile
    /\ OpenSlots(fileDescriptorTable) # {}

C13_PutFillsTheTable ==
    [][(FdCall("Put") /\ \A i \in Slots : fileDescriptorTable[i] # WildFile)
        => /\ fdLast'.ret = 0 =>
                 Cardinality(OpenSlots(fileDescriptorTable)) = MAXOPENFILES
           /\ fdLast'.ret # 0 => fdLast'.ret \in 1 .. MAXOPENFILES]_vars

\* the ids from the cursor c on, in cyclic order, up to and with id
CyclicDist(c, id) == ((id - c - 1 + 2 * (MAXOPENFILES + 1)) % (MAXOPENFILES + 1)) + 1

\* C14: a successful Put returns the first unoccupied id of 1..MAXOPENFILES
\* strictly after the cursor in cyclic order, 0 and occupied slots skipped.
C14_PutIsRoundRobin ==
    [][(FdCall("Put") /\ fdLast'.ret # 0)
        => \A j \in 1 .. MAXOPENFILES :
              fileDescriptorTable[j] = NullFile
                 => CyclicDist(fileDescritporIndex % MAXOPENFILES, fdLast'.ret)
                       <= CyclicDist(fileDescritporIndex % MAXOPENFILES, j)]_vars

\* ---- Scheduler (code/threads/scheduler.cc) -----------------------------------
\* Thread, List, SortedList, ListIterator, Interrupt and the timer are not part
\* of the sources at hand; they are modelled as the specification describes
\* them.
LEVEL_SJF == 2
LEVEL_PRIORITY == 1
LEVEL_RR == 0
LEVEL_GAP == 50
PriorityLimit == 150        \* ASSERT(priority >= 0 && priority < 150)
AgingTicks == 1500
AgingStep == 10
DEMOTE_LIMIT_TICK == 500    \* implementation-defined

MaxTicks == 1500           \* totalTicks is followed up to here
TimerTicks == 1500          \* the clock advances in steps of this many ticks
EstUnit == 2                \* guessCPUBurst is a double, counted in 1/EstUnit ticks
\* the priority and the estimate (1.0, 1.5, 2.0) a thread is forked with; the
\* estimate is read only of a thread that reaches the tier of sjfList
Births == {<<38, 2>>, <<45, 2>>, <<95, 3>>, <<145, 2>>, <<145, 4>>}
MainBirths == {<<145, 3>>}

CompareThreadID(t1, t2) ==
    IF t1 < t2 THEN -1
    ELSE IF t1 > t2 THEN 1
    ELSE 0

\* p1 = -priority: the sorted list hands out its smallest element first
ComparePriority(pri, t1, t2) ==
    IF (0 - pri[t1]) < (0 - pri[t2]) THEN -1
    ELSE IF (0 - pri[t1]) > (0 - pri[t2]) THEN 1
    ELSE CompareThreadID(t1, t2)

\* int g1 = t1->getGuessCPUBurst(): the conversion of the double drops the
\* fraction
ToInt(g) == g \div EstUnit

CompareSJF(guess, t1, t2) ==
    IF ToInt(guess[t1]) < ToInt(guess[t2]) THEN -1
    ELSE IF ToInt(guess[t1]) > ToInt(guess[t2]) THEN 1
    ELSE CompareThreadID(t1, t2)

isPreempted(pri, guess, cur, preempt) ==
    IF pri[cur] >= LEVEL_GAP * (3 - 1) /\ pri[preempt] >= LEVEL_GAP * (3 - 1)
    THEN CompareSJF(guess, preempt, cur) < 0
    ELSE ComparePriority(pri, preempt, cur) < 0

\* List::Remove: the first element equal to item leaves the list
ListRemoveMut(list, item) == IF list = <<>> THEN list ELSE Tail(list)

ListRemove(list, item) ==
    IF \E k \in 1 .. Len(list) : list[k] = item
    THEN SubSeq(list, 1, (CHOOSE k \in 1 .. Len(list) :
                              list[k] = item /\ \A j \in 1 .. (k - 1) : list[j] # item) - 1)
         \o SubSeq(list, (CHOOSE k \in 1 .. Len(list) :
                              list[k] = item /\ \A j \in 1 .. (k - 1) : list[j] # item) + 1,
                   Len(list))
    ELSE list

\* SortedList::Insert: item goes before the first element it compares less
\* than, or to the end; before is the set of those elements
InsertAt(list, item, k) == SubSeq(list, 1, k - 1) \o <<item>> \o SubSeq(list, k, Len(list))

Insert(list, item, before) ==
    IF \E k \in 1 .. Len(list) : list[k] \in before
    THEN InsertAt(list, item, CHOOSE k \in 1 .. Len(list) :
                                 list[k] \in before /\ \A j \in 1 .. (k - 1) : list[j] \notin before)
    ELSE Append(list, item)

PriorityInsertMut(list, pri, item) == Append(list, item)

PriorityInsert(list, pri, item) ==
    Insert(list, item, {x \in Threads : ComparePriority(pri, item, x) < 0})

SJFInsert(list, guess, item) ==
    Insert(list, item, {x \in Threads : CompareSJF(guess, item, x) < 0})

\* ListIterator: the item after item, NoThread at the end of the list
First(list) == IF list = <<>> THEN NoThread ELSE Head(list)

ItemAfter(list, item) ==
    IF \E k \in 1 .. (Len(list) - 1) : list[k] = item
    THEN list[(CHOOSE k \in 1 .. (Len(list) - 1) : list[k] = item) + 1]
    ELSE NoThread

\* the scheduler and its threads as one value: what an operation starts from
\* and what it leaves
Sched ==
    [readyList |-> readyList, priorityList |-> priorityList, sjfList |-> sjfList,
     priority |-> priority, guessCPUBurst |-> guessCPUBurst,
     lastCPUTick |-> lastCPUTick, cpuBurst |-> cpuBurst, status |-> status,
     yieldOnReturn |-> yieldOnReturn, cur |-> currentThread, now |-> totalTicks,
     yields |-> yields, ret |-> NoThread, st |-> "ok", yield |-> FALSE]

\* the thread is in its list: the time stamp, the status and the preemption test
EnqueuedNoStamp(s, thread, tlevel) ==
    [s EXCEPT !.status[thread] = "READY",
              !.yieldOnReturn = @ \/ (s.cur # thread
                                      /\ isPreempted(s.priority, s.guessCPUBurst, s.cur, thread)),
              !.yield = @ \/ (s.cur # thread
                              /\ isPreempted(s.priority, s.guessCPUBurst, s.cur, thread)),
              !.ret = tlevel]

EnqueuedMut(s, thread, tlevel) ==
    [s EXCEPT !.lastCPUTick[thread] = s.now,
              !.status[thread] = "READY",
              !.yieldOnReturn = @ \/ (s.cur # thread
                                      /\ isPreempted(s.priority, s.guessCPUBurst, thread, s.cur)),
              !.yield = @ \/ (s.cur # thread
                              /\ isPreempted(s.priority, s.guessCPUBurst, thread, s.cur)),
              !.ret = tlevel]

Enqueued(s, thread, tlevel) ==
    [s EXCEPT !.lastCPUTick[thread] = s.now,
              !.status[thread] = "READY",
              !.yieldOnReturn = @ \/ (s.cur # thread
                                      /\ isPreempted(s.priority, s.guessCPUBurst, s.cur, thread)),
              !.yield = @ \/ (s.cur # thread
                              /\ isPreempted(s.priority, s.guessCPUBurst, s.cur, thread)),
              !.ret = tlevel]

ReadyToRunOpMut(s, thread) ==
    IF ~(s.priority[thread] >= 0 /\ s.priority[thread] < PriorityLimit)
    THEN [s EXCEPT !.st = "assert"]
    ELSE Enqueued([s EXCEPT !.readyList = Append(@, thread)], thread,
                  s.priority[thread] \div LEVEL_GAP)

ReadyToRunOp(s, thread) ==
    IF ~(s.priority[thread] >= 0 /\ s.priority[thread] < PriorityLimit)
    THEN [s EXCEPT !.st = "assert"]
    ELSE IF s.priority[thread] \div LEVEL_GAP = LEVEL_RR
    THEN Enqueued([s EXCEPT !.readyList = Append(@, thread)], thread, LEVEL_RR)
    ELSE IF s.priority[thread] \div LEVEL_GAP = LEVEL_PRIORITY
    THEN Enqueued([s EXCEPT !.priorityList = PriorityInsert(@, s.priority, thread)],
                  thread, LEVEL_PRIORITY)
    ELSE Enqueued([s EXCEPT !.sjfList = SJFInsert(@, s.guessCPUBurst, thread)],
                  thread, LEVEL_SJF)

FindNextToRunOpMut(s) ==
    IF s.readyList # <<>>
    THEN [s EXCEPT !.readyList = Tail(@), !.ret = Head(s.readyList)]
    ELSE IF s.priorityList # <<>>
    THEN [s EXCEPT !.priorityList = Tail(@), !.ret = Head(s.priorityList)]
    ELSE IF s.sjfList # <<>>
    THEN [s EXCEPT !.sjfList = Tail(@), !.ret = Head(s.sjfList)]
    ELSE [s EXCEPT !.ret = NoThread]

FindNextToRunOp(s) ==
    IF s.sjfList # <<>>
    THEN [s EXCEPT !.sjfList = Tail(@), !.ret = Head(s.sjfList)]
    ELSE IF s.priorityList # <<>>
    THEN [s EXCEPT !.priorityList = Tail(@), !.ret = Head(s.priorityList)]
    ELSE IF s.readyList # <<>>
    THEN [s EXCEPT !.readyList = Tail(@), !.ret = Head(s.readyList)]
    ELSE [s EXCEPT !.ret = NoThread]

\* totalList[i]
ListOf(s, i) ==
    IF i = 0 THEN s.readyList
    ELSE IF i = 1 THEN s.priorityList
    ELSE s.sjfList

RemovedMut(s, i, t) == s

Removed(s, i, t) ==
    IF i = 0 THEN [s EXCEPT !.readyList = ListRemove(@, t)]
    ELSE IF i = 1 THEN [s EXCEPT !.priorityList = ListRemove(@, t)]
    ELSE [s EXCEPT !.sjfList = ListRemove(@, t)]

\* the body of the loop for a thread t of list i that has waited long enough,
\* p its new priority
AgedMut(s, i, t, p) ==
    IF p >= LEVEL_GAP
    THEN ReadyToRunOp(Removed([s EXCEPT !.priority[t] = p], i, t), t)
    ELSE [s EXCEPT !.priority[t] = p, !.lastCPUTick[t] = s.now, !.readyList = ListRemove(@, t) \o <<t>>]

Aged(s, i, t, p) ==
    IF p >= LEVEL_GAP
    THEN ReadyToRunOp(Removed([s EXCEPT !.priority[t] = p], i, t), t)
    ELSE [s EXCEPT !.priority[t] = p, !.lastCPUTick[t] = s.now]

NewPriorityMut(p) == p + AgingStep

NewPriority(p) == IF p + AgingStep < PriorityLimit THEN p + AgingStep ELSE PriorityLimit - 1

\* the two loops of Aging: it is the item the iterator of list i stands at,
\* NoThread once it is done; it.Next() is taken before the item is removed.
\* The singleton sets bind the state after a step and the next item as values,
\* so that a step of the loop is computed once.
RECURSIVE AgingLoop(_, _, _)
AgingLoop(s, i, it) ==
    IF s.st # "ok" THEN s
    ELSE IF it = NoThread
    THEN IF i = 2 THEN s ELSE AgingLoop(s, i + 1, First(ListOf(s, i + 1)))
    ELSE IF s.now - s.lastCPUTick[it] >= AgingTicks
    THEN CHOOSE r \in {AgingLoop(aged, i, next) :
                          aged \in {Aged(s, i, it, NewPriority(s.priority[it]))},
                          next \in {ItemAfter(ListOf(s, i), it)}} : TRUE
    ELSE CHOOSE r \in {AgingLoop(s, i, next) : next \in {ItemAfter(ListOf(s, i), it)}} : TRUE

AgingOp(s) == AgingLoop([s EXCEPT !.ret = NoThread], 0, First(s.readyList))

DemotedMut(s, burst, tlevel) ==
    IF tlevel > 0
    THEN [s EXCEPT !.lastCPUTick[s.cur] = s.now,
                   !.cpuBurst[s.cur] = @ + burst,
                   !.priority[s.cur] = (tlevel - 1) * LEVEL_GAP - 1,
                   !.yieldOnReturn = TRUE,
                   !.yield = TRUE]
    ELSE [s EXCEPT !.lastCPUTick[s.cur] = s.now,
                   !.cpuBurst[s.cur] = @ + burst]

Demoted(s, burst, tlevel) ==
    IF tlevel > 0
    THEN [s EXCEPT !.lastCPUTick[s.cur] = s.now,
                   !.cpuBurst[s.cur] = @ + burst,
                   !.priority[s.cur] = tlevel * LEVEL_GAP - 1,
                   !.yieldOnReturn = TRUE,
                   !.yield = TRUE]
    ELSE [s EXCEPT !.lastCPUTick[s.cur] = s.now,
                   !.cpuBurst[s.cur] = @ + burst]

DemoteOp(s) ==
    IF s.now - s.lastCPUTick[s.cur] >= DEMOTE_LIMIT_TICK
    THEN Demoted(s, s.now - s.lastCPUTick[s.cur], s.priority[s.cur] \div LEVEL_GAP)
    ELSE s

\* ---- Scheduler: the calls ----------------------------------------------------
SchedDone(op, thread, r) ==
    /\ readyList' = r.readyList
    /\ priorityList' = r.priorityList
    /\ sjfList' = r.sjfList
    /\ priority' = r.priority
    /\ guessCPUBurst' = r.guessCPUBurst
    /\ lastCPUTick' = r.lastCPUTick
    /\ cpuBurst' = r.cpuBurst
    /\ status' = r.status
    /\ yieldOnReturn' = r.yieldOnReturn
    /\ schedLast' = [op |-> op, thread |-> thread, ret |-> r.ret, st |-> r.st,
                     yield |-> r.yield]
    /\ yields' = r.yields
    /\ UNCHANGED <<fsVars, fdVars>>

AllEmpty == readyList = <<>> /\ priorityList = <<>> /\ sjfList = <<>>

\* Interrupts are enabled, so that the timer and the devices call the
\* scheduler: user code runs, or Thread::Sleep waits in Interrupt::Idle with
\* nothing ready.
InterruptsOn ==
    /\ schedLast.st = "ok"
    /\ nextThread = NoThread
    /\ pc = "user" \/ (pc \in {"sleep", "finish"} /\ AllEmpty)

\* Thread::Fork of a new thread, which is given its priority and its estimate;
\* the wake-up of a blocked thread; or Thread::Yield putting the running thread
\* back after FindNextToRun has found another.
ReadyToRun(thread) ==
    /\ \/ /\ InterruptsOn
          /\ status[thread] \in {"NEW", "BLOCKED"}
          /\ thread = currentThread => pc = "sleep"
       \/ /\ schedLast.st = "ok"
          /\ pc = "yield"
          /\ thread = currentThread
          /\ status[thread] = "RUNNING"
    /\ \E b \in (IF status[thread] = "NEW" THEN Births
                 ELSE {<<priority[thread], guessCPUBurst[thread]>>}) :
          SchedDone("ReadyToRun", thread,
                    ReadyToRunOp([Sched EXCEPT !.priority[thread] = b[1],
                                               !.guessCPUBurst[thread] = b[2]], thread))
    /\ UNCHANGED <<currentThread, nextThread, totalTicks, toBeDestroyed, pc>>

\* Called by Thread::Yield ("user") and by the loop of Thread::Sleep.  The
\* yield request has been taken by then: Interrupt::OneTick and
\* Interrupt::Idle clear the flag.
FindNextToRunDone(r) ==
    /\ SchedDone("FindNextToRun", NoThread, [r EXCEPT !.yieldOnReturn = FALSE])
    /\ nextThread' = r.ret
    /\ pc' = IF pc = "user" /\ r.ret # NoThread THEN "yield" ELSE pc
    /\ UNCHANGED <<currentThread, totalTicks, toBeDestroyed>>

FindNextToRun ==
    /\ schedLast.st = "ok"
    /\ nextThread = NoThread
    /\ pc \in {"user", "sleep", "finish"}
    /\ FindNextToRunDone(FindNextToRunOp(Sched))

\* Thread::Sleep(finishing) up to its first FindNextToRun: the running thread
\* blocks, or finishes
Sleep(finishing) ==
    /\ schedLast.st = "ok"
    /\ pc = "user"
    /\ nextThread = NoThread
    /\ SchedDone("Sleep", currentThread, [Sched EXCEPT !.status[currentThread] = "BLOCKED"])
    /\ pc' = IF finishing THEN "finish" ELSE "sleep"
    /\ UNCHANGED <<currentThread, nextThread, totalTicks, toBeDestroyed>>

\* Scheduler::Run(nextThread, finishing) up to SWITCH
RunThread ==
    /\ schedLast.st = "ok"
    /\ nextThread # NoThread
    /\ (pc = "yield" /\ status[currentThread] = "READY") \/ pc \in {"sleep", "finish"}
    /\ IF pc = "finish" /\ toBeDestroyed # NoThread
       THEN /\ SchedDone("Run", nextThread, [Sched EXCEPT !.st = "assert"])
            /\ UNCHANGED <<currentThread, nextThread, totalTicks, toBeDestroyed, pc>>
       ELSE /\ SchedDone("Run", nextThread,
                         [Sched EXCEPT !.status[nextThread] = "RUNNING",
                                       !.lastCPUTick[nextThread] = totalTicks])
            /\ toBeDestroyed' = IF pc = "finish" THEN currentThread ELSE toBeDestroyed
            /\ currentThread' = nextThread
            /\ nextThread' = NoThread
            /\ pc' = "switched"
            /\ UNCHANGED totalTicks

\* the thread switched to goes on: Scheduler::Run after SWITCH, or the start
\* of a new thread
CheckToBeDestroyedMut ==
    /\ schedLast.st = "ok"
    /\ pc = "switched"
    /\ SchedDone("CheckToBeDestroyed", toBeDestroyed, Sched)
    /\ pc' = "user"
    /\ UNCHANGED <<currentThread, nextThread, totalTicks, toBeDestroyed>>

CheckToBeDestroyed ==
    /\ schedLast.st = "ok"
    /\ pc = "switched"
    /\ SchedDone("CheckToBeDestroyed", toBeDestroyed,
                 IF toBeDestroyed # NoThread
                 THEN [Sched EXCEPT !.status[toBeDestroyed] = "DELETED"]
                 ELSE Sched)
    /\ toBeDestroyed' = NoThread
    /\ pc' = "user"
    /\ UNCHANGED <<currentThread, nextThread, totalTicks>>

Aging ==
    /\ InterruptsOn
    /\ \E r \in {[AgingOp(Sched) EXCEPT !.ret = NoThread]} :
          SchedDone("Aging", NoThread, r)
    /\ UNCHANGED <<currentThread, nextThread, totalTicks, toBeDestroyed, pc>>

Demote ==
    /\ InterruptsOn
    /\ SchedDone("Demote", currentThread, DemoteOp(Sched))
    /\ UNCHANGED <<currentThread, nextThread, totalTicks, toBeDestroyed, pc>>

\* the clock of the machine advances
Tick ==
    /\ InterruptsOn
    /\ totalTicks + TimerTicks <= MaxTicks
    /\ SchedDone("Tick", NoThread, Sched)
    /\ totalTicks' = totalTicks + TimerTicks
    /\ UNCHANGED <<currentThread, nextThread, toBeDestroyed, pc>>

\* the main thread runs with some priority and estimate; the other threads are
\* yet to be forked
SchedInit ==
    /\ readyList = <<>>
    /\ priorityList = <<>>
    /\ sjfList = <<>>
    /\ \E b \in MainBirths :
          /\ priority = [t \in Threads |-> IF t = 1 THEN b[1] ELSE 0]
          /\ guessCPUBurst = [t \in Threads |-> IF t = 1 THEN b[2] ELSE 0]
    /\ lastCPUTick = [t \in Threads |-> 0]
    /\ cpuBurst = [t \in Threads |-> 0]
    /\ status = [t \in Threads |-> IF t = 1 THEN "RUNNING" ELSE "NEW"]
    /\ currentThread = 1
    /\ nextThread = NoThread
    /\ yieldOnReturn = FALSE
    /\ totalTicks = 0
    /\ toBeDestroyed = NoThread
    /\ pc = "user"
    /\ schedLast = SchedBoot
    /\ yields = [t \in Threads |-> 0]
    /\ FsIdle
    /\ FdIdle

SchedNext ==
    \/ \E thread \in Threads : ReadyToRun(thread)
    \/ FindNextToRun
    \/ \E finishing \in BOOLEAN : Sleep(finishing)
    \/ RunThread
    \/ CheckToBeDestroyed
    \/ Aging
    \/ Demote
    \/ Tick

SchedSpec == SchedInit /\ [][SchedNext]_vars

\* ---- Scheduler::isPreempted on its own ---------------------------------------
PreemptPriorities == {45, 95, 100, 145}
PreemptEsts == {2, 3, 4}

isPreemptedCall(cur, preempt) ==
    /\ cur # preempt
    /\ schedLast' = [op |-> "isPreempted", thread |-> preempt, cur |-> cur,
                     ret |-> IF isPreempted(priority, guessCPUBurst, cur, preempt)
                             THEN 1 ELSE 0,
                     st |-> "ok", yield |-> FALSE]
    /\ UNCHANGED <<readyList, priorityList, sjfList, priority, guessCPUBurst, lastCPUTick,
                   cpuBurst, status, currentThread, nextThread, yieldOnReturn, totalTicks,
                   toBeDestroyed, pc, yields>>
    /\ UNCHANGED <<fsVars, fdVars>>

PreemptInit ==
    /\ readyList = <<>>
    /\ priorityList = <<>>
    /\ sjfList = <<>>
    /\ priority \in [Threads -> PreemptPriorities]
    /\ guessCPUBurst \in [Threads -> PreemptEsts]
    /\ lastCPUTick = [t \in Threads |-> 0]
    /\ cpuBurst = [t \in Threads |-> 0]
    /\ status = [t \in Threads |-> IF t = 1 THEN "RUNNING" ELSE "NEW"]
    /\ currentThread = 1
    /\ nextThread = NoThread
    /\ yieldOnReturn = FALSE
    /\ totalTicks = 0
    /\ toBeDestroyed = NoThread
    /\ pc = "user"
    /\ schedLast = SchedBoot
    /\ yields = [t \in Threads |-> 0]
    /\ FsIdle
    /\ FdIdle

PreemptNext == \E cur \in Threads : \E preempt \in Threads : isPreemptedCall(cur, preempt)

PreemptSpec == PreemptInit /\ [][PreemptNext]_vars

\* ---- the claims on the scheduler ---------------------------------------------
SchedCall(op) == schedLast'.op = op /\ schedVars' # schedVars

Queued == {readyList[k] : k \in 1 .. Len(readyList)}
              \cup {priorityList[k] : k \in 1 .. Len(priorityList)}
              \cup {sjfList[k] : k \in 1 .. Len(sjfList)}

InList(list) == {list[k] : k \in 1 .. Len(list)}

Pos(list, t) == CHOOSE k \in 1 .. Len(list) : list[k] = t

Tier(t) == priority[t] \div LEVEL_GAP

\* C15: FindNextToRun removes and returns the front of sjfList if it is not
\* empty, else the front of priorityList, else the front of readyList; with
\* all three empty it returns NULL and leaves the lists as they are.  No
\* thread of a lower tier is returned while a thread of a higher tier is queued.
C15_FindNextToRunTakesHighestTier ==
    [][SchedCall("FindNextToRun") =>
          /\ sjfList # <<>> =>
                /\ schedLast'.ret = Head(sjfList)
                /\ sjfList' = Tail(sjfList)
                /\ UNCHANGED <<priorityList, readyList>>
          /\ (sjfList = <<>> /\ priorityList # <<>>) =>
                /\ schedLast'.ret = Head(priorityList)
                /\ priorityList' = Tail(priorityList)
                /\ UNCHANGED <<sjfList, readyList>>
          /\ (sjfList = <<>> /\ priorityList = <<>> /\ readyList # <<>>) =>
                /\ schedLast'.ret = Head(readyList)
                /\ readyList' = Tail(readyList)
                /\ UNCHANGED <<sjfList, priorityList>>
          /\ AllEmpty =>
                /\ schedLast'.ret = NoThread
                /\ UNCHANGED <<sjfList, priorityList, readyList>>
          /\ schedLast'.ret # NoThread =>
                \A t \in Queued : Tier(t) <= Tier(schedLast'.ret)
    ]_vars

\* a thread of priorityList has been returned while readyList holds another
C15_Witness ==
    /\ schedLast.op = "FindNextToRun"
    /\ schedLast.ret # NoThread
    /\ Tier(schedLast.ret) = LEVEL_PRIORITY
    /\ readyList # <<>>

\* C16: sjfList is sorted ascending by (estimated burst, thread id).
C16_SjfQueueIsSorted ==
    \A k \in 1 .. (Len(sjfList) - 1) :
        \/ guessCPUBurst[sjfList[k]] < guessCPUBurst[sjfList[k + 1]]
        \/ /\ guessCPUBurst[sjfList[k]] = guessCPUBurst[sjfList[k + 1]]
           /\ sjfList[k] <= sjfList[k + 1]

\* C17: priorityList is sorted by priority descending and, among equal
\* priorities, by thread id ascending, after every operation.
C17_PriorityQueueIsSorted ==
    \A k \in 1 .. (Len(priorityList) - 1) :
        \/ priority[priorityList[k]] > priority[priorityList[k + 1]]
        \/ /\ priority[priorityList[k]] = priority[priorityList[k + 1]]
           /\ priorityList[k] < priorityList[k + 1]

\* Aging has raised a thread of readyList into priorityList, behind a thread
\* that was there
C17_Witness ==
    /\ schedLast.op = "Aging"
    /\ Len(priorityList) = 2
    /\ priority[priorityList[2]] = 45 + AgingStep
    /\ priorityList[1] > priorityList[2]

\* C18: readyList is first in, first out: a thread enters at the tail, leaves
\* from the head when FindNextToRun returns it (or when Aging promotes it),
\* and the threads that stay keep their order; a thread that Aging raises to
\* a priority below LEVEL_GAP stays where it is.
C18_ReadyListIsFifo ==
    [][/\ \A a, b \in InList(readyList) \cap InList(readyList') :
             Pos(readyList, a) < Pos(readyList, b)
                 => Pos(readyList', a) < Pos(readyList', b)
       /\ \A t \in InList(readyList') \ InList(readyList) :
             /\ schedLast'.op = "ReadyToRun"
             /\ readyList' = Append(readyList, t)
       /\ \A t \in InList(readyList) \ InList(readyList') :
             \/ /\ schedLast'.op = "FindNextToRun"
                /\ schedLast'.ret = t
                /\ t = Head(readyList)
             \/ /\ schedLast'.op = "Aging"
                /\ priority'[t] >= LEVEL_GAP
       /\ SchedCall("Aging") =>
             \A t \in InList(readyList) : priority'[t] < LEVEL_GAP => t \in InList(readyList')
    ]_vars

\* Aging has raised the first of two threads of readyList from 38 to 48
C18_Witness ==
    /\ schedLast.op = "Aging"
    /\ Len(readyList) = 2
    /\ priority[readyList[1]] = 38 + AgingStep

\* C19: after every operation each queued thread sits in the list of its
\* tier priority / LEVEL_GAP.
C19_QueuedInItsTier ==
    /\ \A t \in InList(readyList) : priority[t] \in 0 .. (LEVEL_GAP - 1)
    /\ \A t \in InList(priorityList) : priority[t] \in LEVEL_GAP .. (2 * LEVEL_GAP - 1)
    /\ \A t \in InList(sjfList) : priority[t] \in (2 * LEVEL_GAP) .. (3 * LEVEL_GAP - 1)

\* Aging has moved one thread from readyList into priorityList and another
\* from priorityList into sjfList
C19_Witness ==
    /\ schedLast.op = "Aging"
    /\ \E t \in InList(priorityList) : priority[t] = 45 + AgingStep
    /\ \E t \in InList(sjfList) : priority[t] = 95 + AgingStep

\* C20: isPreempted(cur, cand) is true exactly when both priorities are at
\* least 2 * LEVEL_GAP and (est(cand), id(cand)) < (est(cur), id(cur)), or not
\* both are and cand has the higher priority, or the same and the smaller id.
C20_IsPreemptedIsTheOrder ==
    schedLast.op = "isPreempted" =>
        (schedLast.ret = 1 <=>
            IF /\ priority[schedLast.cur] >= 2 * LEVEL_GAP
               /\ priority[schedLast.thread] >= 2 * LEVEL_GAP
            THEN \/ guessCPUBurst[schedLast.thread] < guessCPUBurst[schedLast.cur]
                 \/ /\ guessCPUBurst[schedLast.thread] = guessCPUBurst[schedLast.cur]
                    /\ schedLast.thread < schedLast.cur
            ELSE \/ priority[schedLast.thread] > priority[schedLast.cur]
                 \/ /\ priority[schedLast.thread] = priority[schedLast.cur]
                    /\ schedLast.thread < schedLast.cur)

\* ---- the claims on ReadyToRun, Aging, Demote and Run -------------------------
Count(list, t) == Cardinality({k \in 1 .. Len(list) : list[k] = t})

\* C21: ReadyToRun(thread) sets the time stamp of the thread to the current
\* tick, puts it into the list of its tier and into no other, makes it READY,
\* and requests the yield exactly when the thread is not the current thread
\* and isPreempted(currentThread, thread) holds; a thread of a higher tier
\* than the running thread always requests it.
C21_ReadyToRunEffects ==
    [][SchedCall("ReadyToRun") =>
          /\ lastCPUTick'[schedLast'.thread] = totalTicks
          /\ status'[schedLast'.thread] = "READY"
          /\ schedLast'.ret = priority'[schedLast'.thread] \div LEVEL_GAP
          /\ Count(readyList', schedLast'.thread) =
                 (IF schedLast'.ret = LEVEL_RR THEN 1 ELSE 0)
          /\ Count(priorityList', schedLast'.thread) =
                 (IF schedLast'.ret = LEVEL_PRIORITY THEN 1 ELSE 0)
          /\ Count(sjfList', schedLast'.thread) =
                 (IF schedLast'.ret = LEVEL_SJF THEN 1 ELSE 0)
          /\ ListRemove(readyList', schedLast'.thread) = readyList
          /\ ListRemove(priorityList', schedLast'.thread) = priorityList
          /\ ListRemove(sjfList', schedLast'.thread) = sjfList
          /\ schedLast'.yield <=>
                 (/\ schedLast'.thread # currentThread
                  /\ isPreempted(priority', guessCPUBurst', currentThread,
                                 schedLast'.thread))
          /\ yieldOnReturn' = (yieldOnReturn \/ schedLast'.yield)
          /\ (/\ schedLast'.thread # currentThread
              /\ schedLast'.ret > priority'[currentThread] \div LEVEL_GAP)
                 => schedLast'.yield
    ]_vars

\* a thread of a higher tier than the running thread has been enqueued
C21_Witness ==
    /\ schedLast.op = "ReadyToRun"
    /\ schedLast.thread # currentThread
    /\ Tier(schedLast.thread) > Tier(currentThread)
    /\ schedLast.yield
    /\ yieldOnReturn

\* (est(a), id(a)) < (est(b), id(b)) on the estimates as they are
EstBefore(guess, a, b) == guess[a] < guess[b] \/ (guess[a] = guess[b] /\ a < b)

\* C22: when the running thread and the thread t that ReadyToRun enqueues are
\* both in L1 and t has the smaller estimate (or the same and the smaller id),
\* the yield is requested; and FindNextToRun returns t whenever t is the least
\* element of sjfList by (estimate, id).
C22_ShorterJobPreempts ==
    [][/\ (/\ SchedCall("ReadyToRun")
           /\ schedLast'.thread # currentThread
           /\ priority'[schedLast'.thread] >= 2 * LEVEL_GAP
           /\ priority'[currentThread] >= 2 * LEVEL_GAP
           /\ EstBefore(guessCPUBurst', schedLast'.thread, currentThread))
              => schedLast'.yield
       /\ (SchedCall("FindNextToRun") /\ sjfList # <<>>)
              => \A t \in InList(sjfList) :
                    (\A u \in InList(sjfList) \ {t} : EstBefore(guessCPUBurst, t, u))
                        => schedLast'.ret = t
    ]_vars

Stale(t) == t \in Queued /\ totalTicks - lastCPUTick[t] >= AgingTicks

\* C23: Aging changes the priority of exactly the queued threads that have
\* waited AgingTicks or longer, each to min(p + 10, 149); afterwards every
\* priority lies in 0..149 and no assertion of ReadyToRun has failed.
C23_AgingRaisesTheStale ==
    [][SchedCall("Aging") =>
          /\ \A t \in Threads :
                priority'[t] = IF Stale(t)
                               THEN (IF priority[t] + 10 <= 149 THEN priority[t] + 10 ELSE 149)
                               ELSE priority[t]
          /\ \A t \in Threads : priority'[t] \in 0 .. 149
          /\ schedLast'.st = "ok"
    ]_vars

\* Aging has capped one queued thread at 149 and left a fresh one alone
C23_Witness ==
    /\ schedLast.op = "Aging"
    /\ \E t \in Queued : priority[t] = 149 /\ lastCPUTick[t] = totalTicks
    /\ \E t \in Queued : priority[t] = 38

\* C24: a stale queued thread that Aging raises to LEVEL_GAP or more leaves
\* its list and enters, through ReadyToRun, the list of its new tier, and the
\* preemption of the running thread is evaluated again; one that stays below
\* LEVEL_GAP stays in readyList; either way its time stamp is the current tick.
C24_AgingReinserts ==
    [][SchedCall("Aging") =>
          /\ \A t \in Threads : Stale(t) =>
                /\ lastCPUTick'[t] = totalTicks
                /\ Count(readyList', t) = (IF priority'[t] \div LEVEL_GAP = LEVEL_RR THEN 1 ELSE 0)
                /\ Count(priorityList', t) =
                       (IF priority'[t] \div LEVEL_GAP = LEVEL_PRIORITY THEN 1 ELSE 0)
                /\ Count(sjfList', t) = (IF priority'[t] \div LEVEL_GAP = LEVEL_SJF THEN 1 ELSE 0)
                /\ status'[t] = "READY"
          /\ schedLast'.yield <=>
                \E t \in Threads :
                    /\ Stale(t)
                    /\ priority'[t] >= LEVEL_GAP
                    /\ t # currentThread
                    /\ isPreempted(priority', guessCPUBurst', currentThread, t)
          /\ yieldOnReturn' = (yieldOnReturn \/ schedLast'.yield)
    ]_vars

\* Aging has moved a thread from priorityList into sjfList, which preempts
\* the running thread, and has raised a thread of readyList in place
C24_Witness ==
    /\ schedLast.op = "Aging"
    /\ schedLast.yield
    /\ \E t \in InList(sjfList) : priority[t] = 95 + AgingStep /\ lastCPUTick[t] = totalTicks
    /\ \E t \in InList(readyList) : priority[t] = 38 + AgingStep /\ lastCPUTick[t] = totalTicks

C26_ToBeDestroyedIsReclaimed ==
    [][/\ schedLast'.st = "ok"
       /\ toBeDestroyed' # NoThread =>
             /\ toBeDestroyed' # currentThread'
             /\ pc' = "switched"
       /\ (SchedCall("Run") /\ pc = "finish") =>
             /\ toBeDestroyed = NoThread
             /\ toBeDestroyed' = currentThread
             /\ status'[currentThread] # "DELETED"
       /\ (SchedCall("Run") /\ pc # "finish") => toBeDestroyed' = toBeDestroyed
       /\ \A t \in Threads : (status'[t] = "DELETED" /\ status[t] # "DELETED") =>
             /\ schedLast'.op = "CheckToBeDestroyed"
             /\ t = toBeDestroyed
             /\ t # currentThread
       /\ SchedCall("CheckToBeDestroyed") => toBeDestroyed' = NoThread
    ]_vars

\* a finished thread has been deleted by the thread switched to
C26_Witness ==
    /\ schedLast.op = "CheckToBeDestroyed"
    /\ schedLast.thread # NoThread
    /\ status[schedLast.thread] = "DELETED"
    /\ toBeDestroyed = NoThread
    /\ \E t \in Threads \ {schedLast.thread} : status[t] = "DELETED"

\* C29: each thread occurs at most once in the three lists together, and an
\* Aging call leaves the set of queued threads as it was.
C29_NoThreadTwiceOrLost ==
    [][/\ \A t \in Threads :
             Count(readyList', t) + Count(priorityList', t) + Count(sjfList', t) <= 1
       /\ SchedCall("Aging") =>
             /\ Queued' = Queued
             /\ Len(readyList') + Len(priorityList') + Len(sjfList')
                    = Len(readyList) + Len(priorityList) + Len(sjfList)
    ]_vars

\* Aging has taken two threads out of their lists and put them back
C29_Witness ==
    /\ schedLast.op = "Aging"
    /\ Cardinality(Queued) = 2
    /\ \A t \in Queued : lastCPUTick[t] = totalTicks /\ priority[t] >= LEVEL_GAP
    /\ totalTicks > 0
    /\ \E t \in Queued : priority[t] = PriorityLimit - 1

\* C30: one Aging call raises the priority of a thread at most once, by at
\* most 10, also of a thread that it moves into a list it iterates over later.
C30_AgedAtMostOnce ==
    [][SchedCall("Aging") =>
          \A t \in Threads :
              /\ priority'[t] >= priority[t]
              /\ priority'[t] - priority[t] <= 10
    ]_vars

\* Aging has moved a thread from readyList into priorityList, raised by 10
C30_Witness ==
    /\ schedLast.op = "Aging"
    /\ \E t \in InList(priorityList) : priority[t] = 45 + 10 /\ lastCPUTick[t] = totalTicks
    /\ sjfList = <<>>

\* ---- the scheduler with its fairness -----------------------------------------
\* A kernel path that runs with interrupts off goes on to its end, a yield
\* that has been requested is taken, and the timer keeps calling.
SchedFairness ==
    /\ WF_vars(FindNextToRun)
    /\ WF_vars(ReadyToRun(currentThread))
    /\ WF_vars(RunThread)
    /\ WF_vars(CheckToBeDestroyed)
    /\ WF_vars(Aging)
    /\ WF_vars(Demote)
    /\ WF_vars(Tick)

\* Three threads of L1 after the main thread has forked two and the first of
\* them has run and blocked: thread 1 runs, thread 2 is blocked, thread 3,
\* with the longest estimate, waits in sjfList.
StarveInit ==
    /\ readyList = <<>>
    /\ priorityList = <<>>
    /\ sjfList = <<3>>
    /\ priority = [t \in Threads |-> IF t <= 3 THEN 145 ELSE 0]
    /\ guessCPUBurst = [t \in Threads |-> IF t = 1 THEN 3 ELSE IF t = 2 THEN 2
                                            ELSE IF t = 3 THEN 4 ELSE 0]
    /\ lastCPUTick = [t \in Threads |-> 0]
    /\ cpuBurst = [t \in Threads |-> 0]
    /\ status = [t \in Threads |-> IF t = 1 THEN "RUNNING" ELSE IF t = 2 THEN "BLOCKED"
                                     ELSE IF t = 3 THEN "READY" ELSE "NEW"]
    /\ currentThread = 1
    /\ nextThread = NoThread
    /\ yieldOnReturn = FALSE
    /\ totalTicks = 0
    /\ toBeDestroyed = NoThread
    /\ pc = "user"
    /\ schedLast = [op |-> "CheckToBeDestroyed", thread |-> NoThread, ret |-> NoThread,
                    st |-> "ok", yield |-> FALSE]
    /\ yields = [t \in Threads |-> 0]
    /\ FsIdle
    /\ FdIdle

SchedFairSpec == StarveInit /\ [][SchedNext]_vars /\ SchedFairness

\* C27: no ready thread starves: a thread that waits in a ready list is
\* eventually returned by FindNextToRun, also when other threads keep
\* becoming ready.  Stated of the threads that Aging has raised as far as it
\* can, to priority 149.
C27_NoStarvation ==
    \A t \in Threads :
        (t \in Queued /\ priority[t] = PriorityLimit - 1) ~> (t \notin Queued)

\* ---- the test programs: threads that yield and finish -------------------------
\* The main thread (thread 1) forks the user programs and finishes.  Thread t
\* runs add_1, add_2, add_3 in turn: add_k goes through its loop 10 k times,
\* a Yield at the end of each round; the rounds are counted here in tens.
MaxLoops == 3

Loops(t) == IF t = 1 THEN 0 ELSE ((t - 2) % MaxLoops) + 1

YieldedMut(r) == r

\* i++ after the Yield of the round
Yielded(r) == [r EXCEPT !.yields[r.cur] = @ + 1]

\* the main thread forks a user program
Fork(thread) ==
    /\ pc = "user"
    /\ currentThread = 1
    /\ status[thread] = "NEW"
    /\ ReadyToRun(thread)

\* the Yield system call of the running program: Thread::Yield up to its
\* FindNextToRun
UserYield ==
    /\ schedLast.st = "ok"
    /\ pc = "user"
    /\ nextThread = NoThread
    /\ ~yieldOnReturn
    /\ yields[currentThread] < Loops(currentThread)
    /\ FindNextToRunDone(Yielded(FindNextToRunOp(Sched)))

\* the program has left its loop and returns from main: the thread finishes
UserFinish ==
    /\ ~yieldOnReturn
    /\ yields[currentThread] = Loops(currentThread)
    /\ Sleep(TRUE)

\* the yield that a handler has requested, taken when the interrupt returns
InterruptYield ==
    /\ pc = "user"
    /\ yieldOnReturn
    /\ FindNextToRun

\* the loop of Thread::Sleep of the finishing thread
FinishLoop ==
    /\ pc = "finish"
    /\ FindNextToRun

\* Thread::Yield puts the running thread back
YieldBack ==
    /\ pc = "yield"
    /\ ReadyToRun(currentThread)

\* the steps of the processor, in user code and in the kernel
CpuStep ==
    \/ UserYield
    \/ UserFinish
    \/ InterruptYield
    \/ FinishLoop
    \/ YieldBack
    \/ RunThread
    \/ CheckToBeDestroyed

YieldNext ==
    \/ \E thread \in Threads : Fork(thread)
    \/ UserYield
    \/ UserFinish
    \/ InterruptYield
    \/ FinishLoop
    \/ YieldBack
    \/ RunThread
    \/ CheckToBeDestroyed
    \/ Aging
    \/ Demote
    \/ Tick

\* The processor goes on executing; the timer may call at any time, or never.
YieldSpec == SchedInit /\ [][YieldNext]_vars /\ WF_vars(CpuStep)

\* every thread that was forked has finished, and the last of them waits in
\* Thread::Sleep with nothing ready
AllFinished ==
    /\ AllEmpty
    /\ pc = "finish"
    /\ nextThread = NoThread
    /\ \A t \in Threads \ {currentThread} : status[t] \in {"NEW", "DELETED"}

\* C28: a finite set of user threads, each of which calls Yield a finite
\* number of times and then finishes, all eventually finish, with Aging and
\* Demote called by the timer: the system reaches a state with all the queues
\* empty and every thread finished, and stays there.
C28_AllThreadsFinish == <>[]AllFinished

\* every thread has been forked, has made all its Yield calls and has finished
C28_Witness ==
    /\ AllFinished
    /\ \A t \in Threads : yields[t] = Loops(t)
    /\ \A t \in Threads \ {currentThread} : status[t] = "DELETED"
    /\ currentThread # 1

\* ---- the claims on new directories, names and Find_r ---------------------------
\* C31: after Create(d, _, TRUE) returns TRUE, the new directory d holds no
\* entry in use: Open of every path directly below d returns NULL, whatever
\* the sectors now allocated to d held before, also after a directory of the
\* same name with children was removed recursively.
C31_NewDirectoryIsEmpty ==
    [][(/\ Returned("Create")
        /\ last'.flag
        /\ last'.ret = TRUE)
       => \A c \in Chars : OpenOp(disk', last'.name \o <<"/", c>>).ret = NONE]_vars

\* mkdir has made /a anew after /a, with /a/a and /a/a/a below it, was removed
\* recursively: the table of the old /a/a still lies in a free sector
C31_Witness ==
    /\ last.op = "Create"
    /\ last.flag
    /\ last.ret = TRUE
    /\ last.why = "created"
    /\ last.name = <<"/", "a">>
    /\ ncalls = 1
    /\ TableAt(disk, last.sector) = ZeroTable
    /\ \E s \in Sectors \ MapFetch(disk) : disk[s].t = "tbl"

\* ---- leaf names of every length up to FileNameMaxLen ---------------------------
RECURSIVE NamesOfLen(_)
NamesOfLen(n) ==
    IF n = 0 THEN {<<>>} ELSE {s \o <<c>> : s \in NamesOfLen(n - 1), c \in Chars}

\* the paths of the root directory whose leaf has 1 .. FileNameMaxLen
\* characters after its '/'
LongPaths == {<<"/">> \o s : s \in UNION {NamesOfLen(n) : n \in 1 .. FileNameMaxLen}}

\* a freshly formatted disk
NameInit ==
    /\ FsIdle
    /\ FdIdle
    /\ SchedIdle

NameNext ==
    \/ \E name \in LongPaths : Create(name, 0, FALSE)
    \/ \E name \in LongPaths : Open(name)

NameSpec == NameInit /\ [][NameNext]_vars

\* C32: two distinct leaf names of at most FileNameMaxLen characters each can
\* both be created in the same directory, and each path afterwards opens its
\* own file: the lookup never takes two such names for the same entry.  Stated
\* of the first two Create calls on a fresh disk, where the root directory has
\* room for both.
C32_DistinctNamesAreDistinctEntries ==
    [][(/\ Returned("Create")
        /\ ncalls = 1
        /\ last.op = "Create"
        /\ last.ret = TRUE
        /\ last'.name # last.name)
       => (/\ last'.ret = TRUE
           /\ OpenOp(disk', last.name).ret = last.sector
           /\ OpenOp(disk', last'.name).ret = last'.sector
           /\ last'.sector # last.sector)]_vars

\* ---- Directory::Find_r called on its own -----------------------------------------
\* rootDirectory->Find_r(name, NumDirEntries, DirectorySector), as Create, Open
\* and Remove call it on the root table
Find_rOp(d, name) ==
    LET rootDirectory == FetchFrom(d, directoryFile)
        sector == IF rootDirectory = <<>> THEN GARBAGE
                  ELSE Find_r(d, rootDirectory, name, DirectorySector)
    IN  Res(d, sector, IF sector = GARBAGE THEN "garbage" ELSE "ok", "find", sector)

\* the paths Find_r is called on: the root, the paths of the calls, and each
\* of these with a trailing '/'
FindPaths == {<<"/">>} \cup Paths \cup {name \o <<"/">> : name \in Paths}

FindR(name) ==
    /\ halted = "no"
    /\ ncalls < MaxCalls
    /\ PathOk(disk, name)
    /\ Done("Find_r", name, 0, FALSE, Find_rOp(disk, name))

FindNext ==
    \/ Next
    \/ \E name \in FindPaths : FindR(name)

FindSpec == Init /\ [][FindNext]_vars

\* C33: Find_r returns rootSector only when the path is exactly "/"; for
\* every other absolute path it returns the sector of the entry named by the
\* final segment inside the directory reached through the segments before
\* it, and NONE when a segment is absent; a path with a trailing '/' such as
\* "/a/" does not resolve to the root directory.
C33_FindRResolvesTheFinalSegment ==
    (last.op = "Find_r" /\ halted = "no") =>
        /\ last.ret = DirectorySector => last.name = <<"/">>
        /\ last.name # <<"/">> =>
              last.ret = (IF ParentSector(disk, last.name) < 0 THEN NONE
                          ELSE SectorOf(disk, last.name))

====
